---- MODULE Spec2Model ----
(***************************************************************************)
(* Model of src/src/services/agent-ia-actions.js: the name -> id cache,    *)
(* the tool dispatcher (handleSystemToolCall) and the appointment          *)
(* operations (getAvailableSlots, checkAvailability, createAppointment,    *)
(* deleteAppointment).                                                     *)
(*                                                                         *)
(* Conventions.                                                            *)
(*  - A JavaScript string is a sequence of one-character strings, so that  *)
(*    toLowerCase is computed character by character.                      *)
(*  - A time "HH:MM" is the pair <<HH, MM>>; timeToMinutes/minutesToTime   *)
(*    convert between pairs and minutes as the code does.                  *)
(*  - null / undefined / a missing property is a record with               *)
(*    present = FALSE (found = FALSE for a returned map).                  *)
(*  - Date.now() is the variable now, in units of 30 minutes.              *)
(***************************************************************************)
EXTENDS Integers, Sequences, FiniteSets, TLC

VARIABLES
    nameToIdCache,   \* the module-level cache object (line 44)
    now,             \* Date.now()
    lastSet,         \* history: per cache key, the last setCachedMap since its last invalidation
    cacheOps,        \* bound: cache-mutating calls still allowed in this run
    appointments,    \* the appointments table, in insertion order (row i has id i)
    lastCall,        \* history: the last step taken (and, for a tool call, what it returned)
    serviceStatus,   \* column status of the schedule_services rows
    scheduleStatus,  \* column status of the schedules rows
    inFlight         \* the calls that have started and not returned, each at its await

vars == <<nameToIdCache, now, lastSet, cacheOps, appointments, lastCall, serviceStatus,
          scheduleStatus, inFlight>>

cacheVars == <<nameToIdCache, lastSet, cacheOps>>

----------------------------------------------------------------------------
(* Bounds of the model *)

MaxTime == 3
MaxCacheOps == 2
MaxInvalOps == 3
MaxAppts == 2

----------------------------------------------------------------------------
(* Identifiers *)

NoOrg == "no_org"                 \* a falsy organizationId (undefined, null, '')
Orgs == {"o1", "o2"}
NoKey == "no_key"                 \* subKey omitted (defaults to null)
Schedules == {"s1", "s2"}
SubKeys == Schedules \cup {NoKey}
Types == {"services", "providers", "teams", "flows"}
BySchedule == {"services", "providers"}

\* Two name -> id maps to store through the cache API.
MapA == (<<"c", "o">> :> "sv1")
MapB == (<<"c", "o">> :> "sv2") @@ (<<"b", "a">> :> "sv1")
Maps == {MapA, MapB}

----------------------------------------------------------------------------
(* The cache: lines 44-132 and 840-874 *)

CACHE_EXPIRATION == 2

NoEntry == [present |-> FALSE]
Entry(map, timestamp) == [present |-> TRUE, data |-> map, timestamp |-> timestamp]

\* A value of nameToIdCache[org][type]: a missing/null property, or an object that
\* may carry data/timestamp (direct) and one property per schedule id (sub).
NoBucket == [present |-> FALSE]
EmptyBucket == [present |-> TRUE, direct |-> NoEntry, sub |-> [s \in Schedules |-> NoEntry]]

NoOrgCache == [present |-> FALSE]
FreshOrgCache ==
    [present |-> TRUE,
     types |-> [t \in Types |-> IF t \in BySchedule THEN EmptyBucket ELSE NoBucket]]

EmptyCache == [o \in Orgs |-> NoOrgCache]

NotFound == [found |-> FALSE]
Found(map) == [found |-> TRUE, data |-> map]

\* Mutant: the age of the entry is not checked.
isCacheValid_noExpiry(timestamp, time) == timestamp # 0

isCacheValid(timestamp, time) ==
    timestamp # 0 /\ (time - timestamp) < CACHE_EXPIRATION

getCachedMap(cache, time, organizationId, type, subKey) ==
    IF organizationId \notin Orgs \/ ~cache[organizationId].present THEN NotFound
    ELSE IF type \in BySchedule /\ subKey = NoKey THEN NotFound
    ELSE LET bucket == cache[organizationId].types[type] IN
         IF type \in BySchedule
         THEN IF ~bucket.present \/ ~bucket.sub[subKey].present THEN NotFound
              ELSE IF ~isCacheValid(bucket.sub[subKey].timestamp, time) THEN NotFound
              ELSE Found(bucket.sub[subKey].data)
         ELSE IF ~bucket.present THEN NotFound
              ELSE IF ~bucket.direct.present THEN NotFound
              ELSE IF ~isCacheValid(bucket.direct.timestamp, time) THEN NotFound
              ELSE Found(bucket.direct.data)

\* Mutant: the map is always stored as the type's single entry, whatever the subKey.
setCachedMap_unpartitioned(cache, time, organizationId, type, map, subKey) ==
    IF organizationId \notin Orgs THEN cache
    ELSE LET orgCache == IF cache[organizationId].present
                         THEN cache[organizationId] ELSE FreshOrgCache
         IN [cache EXCEPT ![organizationId] =
                [orgCache EXCEPT !.types[type] =
                    [EmptyBucket EXCEPT !.direct = Entry(map, time)]]]

\* Mutant: the names of the new map are added to the entry already stored.
setCachedMap_merged(cache, time, organizationId, type, map, subKey) ==
    IF organizationId \notin Orgs THEN cache
    ELSE LET stored == getCachedMap(cache, time, organizationId, type, subKey)
             merged == IF ~stored.found THEN map
                       ELSE [k \in DOMAIN stored.data \cup DOMAIN map |->
                                IF k \in DOMAIN map THEN map[k] ELSE stored.data[k]]
             orgCache == IF cache[organizationId].present
                         THEN cache[organizationId] ELSE FreshOrgCache
             bucket == orgCache.types[type]
             newBucket ==
                 IF type \in BySchedule /\ subKey # NoKey
                 THEN LET b == IF bucket.present THEN bucket ELSE EmptyBucket
                      IN [b EXCEPT !.sub[subKey] = Entry(merged, time)]
                 ELSE [EmptyBucket EXCEPT !.direct = Entry(merged, time)]
         IN [cache EXCEPT ![organizationId] =
                [orgCache EXCEPT !.types[type] = newBucket]]

setCachedMap(cache, time, organizationId, type, map, subKey) ==
    IF organizationId \notin Orgs THEN cache
    ELSE LET orgCache == IF cache[organizationId].present
                         THEN cache[organizationId] ELSE FreshOrgCache
             bucket == orgCache.types[type]
             newBucket ==
                 IF type \in BySchedule /\ subKey # NoKey
                 THEN LET b == IF bucket.present THEN bucket ELSE EmptyBucket
                      IN [b EXCEPT !.sub[subKey] = Entry(map, time)]
                 ELSE [EmptyBucket EXCEPT !.direct = Entry(map, time)]
         IN [cache EXCEPT ![organizationId] =
                [orgCache EXCEPT !.types[type] = newBucket]]

\* Mutant: the whole type bucket is deleted even when a subKey is given.
clearCacheItem_wholeBucket(cache, organizationId, type, subKey) ==
    IF organizationId \notin Orgs \/ ~cache[organizationId].present THEN cache
    ELSE IF cache[organizationId].types[type].present
         THEN [cache EXCEPT ![organizationId].types[type] = NoBucket]
         ELSE cache

clearCacheItem(cache, organizationId, type, subKey) ==
    IF organizationId \notin Orgs \/ ~cache[organizationId].present THEN cache
    ELSE LET bucket == cache[organizationId].types[type] IN
         IF type \in BySchedule /\ subKey # NoKey
         THEN IF bucket.present /\ bucket.sub[subKey].present
              THEN [cache EXCEPT ![organizationId].types[type].sub[subKey] = NoEntry]
              ELSE cache
         ELSE IF bucket.present
              THEN [cache EXCEPT ![organizationId].types[type] = NoBucket]
              ELSE cache

clearOrganizationCache(cache, organizationId) ==
    IF organizationId \in Orgs /\ cache[organizationId].present
    THEN [cache EXCEPT ![organizationId] = NoOrgCache]
    ELSE cache

clearAllCache(cache) == [o \in DOMAIN cache |-> NoOrgCache]

----------------------------------------------------------------------------
(* Cache API calls as steps (the exports of lines 1564-1573) *)

\* teams and flows ignore the subKey: they have one partition per organization.
KeyOf(type, subKey) == IF type \in BySchedule THEN subKey ELSE NoKey

CacheKeys == Orgs \X Types \X SubKeys

NoSet == [present |-> FALSE, invalidated |-> FALSE]

\* The keys an invalidation call targets.
ItemTargets(organizationId, type, subKey) ==
    IF type \in BySchedule /\ subKey # NoKey
    THEN {<<organizationId, type, subKey>>}
    ELSE {<<organizationId, type, k>> : k \in SubKeys}

OrgTargets(organizationId) == {<<organizationId, t, k>> : t \in Types, k \in SubKeys}

\* History of a setCachedMap call: it becomes the last set of its key; a set for
\* services/providers without subKey replaces the whole bucket object.
RecordSet(h, time, organizationId, type, map, subKey) ==
    IF organizationId \notin Orgs THEN h
    ELSE [key \in CacheKeys |->
            IF key = <<organizationId, type, KeyOf(type, subKey)>>
            THEN [present |-> TRUE, invalidated |-> FALSE, data |-> map,
                  timestamp |-> time, replaced |-> FALSE]
            ELSE IF /\ type \in BySchedule /\ subKey = NoKey
                    /\ key[1] = organizationId /\ key[2] = type /\ h[key].present
                 THEN [h[key] EXCEPT !.replaced = TRUE]
                 ELSE h[key]]

\* History of an invalidation: the targeted keys have no last set any more.
RecordClear(h, targets) ==
    [key \in CacheKeys |->
        IF key \in targets /\ h[key].present
        THEN [present |-> FALSE, invalidated |-> TRUE]
        ELSE h[key]]

SetCachedMap(organizationId, type, map, subKey) ==
    /\ cacheOps > 0
    /\ nameToIdCache' = setCachedMap(nameToIdCache, now, organizationId, type, map, subKey)
    /\ lastSet' = RecordSet(lastSet, now, organizationId, type, map, subKey)
    /\ cacheOps' = cacheOps - 1
    /\ lastCall' = [op |-> "setCachedMap", organizationId |-> organizationId,
                    type |-> type, subKey |-> subKey]
    /\ UNCHANGED <<now, appointments, serviceStatus, scheduleStatus, inFlight>>

GetCachedMap(organizationId, type, subKey) ==
    /\ lastCall' = [op |-> "getCachedMap"]
    /\ UNCHANGED <<nameToIdCache, now, lastSet, cacheOps, appointments, serviceStatus, scheduleStatus,
                   inFlight>>

ClearCacheItem(organizationId, type, subKey) ==
    /\ cacheOps > 0
    /\ nameToIdCache' = clearCacheItem(nameToIdCache, organizationId, type, subKey)
    /\ lastSet' = RecordClear(lastSet, ItemTargets(organizationId, type, subKey))
    /\ cacheOps' = cacheOps - 1
    /\ lastCall' = [op |-> "clearCacheItem"]
    /\ UNCHANGED <<now, appointments, serviceStatus, scheduleStatus, inFlight>>

ClearOrganizationCache(organizationId) ==
    /\ cacheOps > 0
    /\ nameToIdCache' = clearOrganizationCache(nameToIdCache, organizationId)
    /\ lastSet' = RecordClear(lastSet, OrgTargets(organizationId))
    /\ cacheOps' = cacheOps - 1
    /\ lastCall' = [op |-> "clearOrganizationCache"]
    /\ UNCHANGED <<now, appointments, serviceStatus, scheduleStatus, inFlight>>

ClearAllCache ==
    /\ cacheOps > 0
    /\ nameToIdCache' = clearAllCache(nameToIdCache)
    /\ lastSet' = RecordClear(lastSet, CacheKeys)
    /\ cacheOps' = cacheOps - 1
    /\ lastCall' = [op |-> "clearAllCache"]
    /\ UNCHANGED <<now, appointments, serviceStatus, scheduleStatus, inFlight>>

\* Time passes between calls.
Tick ==
    /\ now < MaxTime
    /\ now' = now + 1
    /\ lastCall' = [op |-> "tick"]
    /\ UNCHANGED <<nameToIdCache, lastSet, cacheOps, appointments, serviceStatus, scheduleStatus,
                   inFlight>>

NoCall == [op |-> "none"]

InitCommon ==
    /\ nameToIdCache = EmptyCache
    /\ now = 1
    /\ lastSet = [key \in CacheKeys |-> NoSet]
    /\ appointments = <<>>
    /\ lastCall = NoCall
    /\ serviceStatus = [id \in {"sv1", "sv2"} |-> "active"]
    /\ scheduleStatus = [id \in {"s1", "s2"} |-> "active"]
    /\ inFlight = <<>>

InitCache == InitCommon /\ cacheOps = MaxCacheOps

\* A falsy organizationId is rejected before any other argument is read.
NextCache ==
    \/ \E o \in Orgs, t \in Types, m \in Maps, k \in SubKeys : SetCachedMap(o, t, m, k)
    \/ \E t \in Types : SetCachedMap(NoOrg, t, MapA, NoKey)
    \/ \E o \in Orgs, t \in Types, k \in SubKeys : GetCachedMap(o, t, k)
    \/ \E o \in Orgs, t \in Types, k \in SubKeys : ClearCacheItem(o, t, k)
    \/ \E t \in Types : ClearCacheItem(NoOrg, t, NoKey)
    \/ \E o \in Orgs \cup {NoOrg} : ClearOrganizationCache(o)
    \/ ClearAllCache
    \/ Tick

SpecCache == InitCache /\ [][NextCache]_vars

\* The invalidation calls on a cache filled by up to MaxInvalOps calls, at one instant.
InitInval == InitCommon /\ cacheOps = MaxInvalOps

NextInval ==
    \/ \E o \in Orgs, t \in Types, m \in Maps, k \in SubKeys : SetCachedMap(o, t, m, k)
    \/ \E o \in Orgs, t \in Types, k \in SubKeys : ClearCacheItem(o, t, k)
    \/ \E o \in Orgs : ClearOrganizationCache(o)
    \/ ClearAllCache

SpecInval == InitInval /\ [][NextInval]_vars

----------------------------------------------------------------------------
(* The scheduling tables read by the appointment operations.  Only the     *)
(* appointments table is written by this code.                             *)

Customers == {"c1", "c2"}
NoSchedule == "no_schedule"       \* a schedule id that matches no row
NoService == "no_service"         \* serviceId undefined
NoProvider == "no_provider"       \* providerId undefined
NoId == 0                         \* appointmentId undefined
NoDate == "no_date"               \* date undefined
NoTime == <<>>                    \* time undefined / null

\* d1 is a Monday, d2 a Wednesday, d3 a Friday:
\* new Date(`${date}T12:00:00Z`).getDay()  (lines 1139-1140)
Dates == {"d1", "d2"}
dayOfWeek(date) ==
    CASE date = "d1" -> 1 [] date = "d2" -> 3 [] date = "d3" -> 5 [] OTHER -> 0

\* schedules rows
scheduleRows ==
    { [id |-> "s1", organization_id |-> "o1", status |-> "active", title |-> "Agenda 1",
       timezone |-> "America/Sao_Paulo"],
      [id |-> "s2", organization_id |-> "o2", status |-> "active", title |-> "Agenda 2",
       timezone |-> "America/Sao_Paulo"] }

\* schedule_services rows; duration is "HH:MM"
serviceRows ==
    { [id |-> "sv1", title |-> <<"C", "o">>, duration |-> <<0, 30>>, schedule_id |-> "s1"],
      [id |-> "sv2", title |-> <<"B", "a">>, duration |-> <<1, 0>>, schedule_id |-> "s1"] }
ServiceIds == {r.id : r \in serviceRows}

\* schedule_providers rows, in table order; s2 has no active provider
providerRows ==
    << [id |-> "pr1", profile_id |-> "pf1", schedule_id |-> "s1", status |-> "active"],
       [id |-> "pr2", profile_id |-> "pf2", schedule_id |-> "s1", status |-> "active"],
       [id |-> "pr3", profile_id |-> "pf3", schedule_id |-> "s2", status |-> "inactive"] >>
Profiles == {providerRows[i].profile_id : i \in DOMAIN providerRows}

\* schedule_availability rows, in table order: one window 09:00-10:00 on Monday for
\* pr1 (and one for the inactive pr3), none on Wednesday, and on Friday two
\* overlapping windows of pr2 and pr1 and one of the inactive pr3.
availabilityTable ==
    << [provider_id |-> "pr1", day_of_week |-> 1, start_time |-> <<9, 0>>, end_time |-> <<10, 0>>],
       [provider_id |-> "pr3", day_of_week |-> 1, start_time |-> <<9, 0>>, end_time |-> <<10, 0>>],
       [provider_id |-> "pr2", day_of_week |-> 5, start_time |-> <<10, 0>>, end_time |-> <<11, 0>>],
       [provider_id |-> "pr1", day_of_week |-> 5, start_time |-> <<9, 30>>, end_time |-> <<10, 30>>],
       [provider_id |-> "pr3", day_of_week |-> 5, start_time |-> <<8, 0>>, end_time |-> <<9, 0>>] >>
availabilityRows == {availabilityTable[i] : i \in DOMAIN availabilityTable}

\* Times a caller may ask for.
Times == {<<9, 0>>, <<9, 30>>, <<10, 0>>}

----------------------------------------------------------------------------
(* Time helpers: lines 1544-1559 *)

timeToMinutes(timeStr) ==
    IF timeStr = NoTime THEN 0 ELSE timeStr[1] * 60 + timeStr[2]

minutesToTime(minutes) == <<minutes \div 60, minutes % 60>>

\* Order of two zero-padded "HH:MM" strings, as Array.prototype.sort compares them.
StringLess(a, b) == a[1] < b[1] \/ (a[1] = b[1] /\ a[2] < b[2])

Includes(seq, x) == \E i \in DOMAIN seq : seq[i] = x

\* Array.prototype.sort() on a list of "HH:MM" strings: every element is kept.
RECURSIVE Insert(_, _)
Insert(sorted, x) ==
    IF sorted = <<>> THEN <<x>>
    ELSE IF StringLess(x, Head(sorted)) THEN <<x>> \o sorted
    ELSE <<Head(sorted)>> \o Insert(Tail(sorted), x)

RECURSIVE Sort(_)
Sort(list) ==
    IF list = <<>> THEN <<>> ELSE Insert(Sort(Tail(list)), Head(list))

----------------------------------------------------------------------------
(* The storage client *)

\* fail names the one query of a call that does not answer, and how: with mode
\* "error" the client returns {data: null, error}, with "throws" it raises.
NoFail == [at |-> "none", mode |-> "none"]
FetchFailed == "fetch failed"

\* An awaited query on a table: data, or null (an empty list here) when the
\* client reports an error; Throws tells whether the client raises instead.
Throws(fail, table) == fail.at = table /\ fail.mode = "throws"
Errs(fail, table) == fail.at = table /\ fail.mode = "error"
Data(fail, table, rows) == IF fail.at = table THEN <<>> ELSE rows

----------------------------------------------------------------------------
(* getAvailableSlots: lines 1124-1196 *)

slotInterval == 30

ActiveProviders(scheduleId) ==
    {providerRows[i] : i \in {j \in DOMAIN providerRows :
        /\ providerRows[j].schedule_id = scheduleId
        /\ providerRows[j].status = "active"}}

\* Mutant: canceled appointments are read as well.
ExistingAppointments_withCanceled(appts, scheduleId, date) ==
    {appts[i] : i \in {j \in DOMAIN appts :
        /\ appts[j].schedule_id = scheduleId
        /\ appts[j].date = date}}

\* appointments of the schedule and date whose status is not canceled
ExistingAppointments(appts, scheduleId, date) ==
    {appts[i] : i \in {j \in DOMAIN appts :
        /\ appts[j].schedule_id = scheduleId
        /\ appts[j].date = date
        /\ appts[j].status # "canceled"}}

\* Mutant: an appointment does not occupy its own start time.
isOccupied_strictStart(existingAppointments, slot) ==
    \E apt \in existingAppointments :
        timeToMinutes(apt.start_time) < slot /\ timeToMinutes(apt.end_time) > slot

isOccupied(existingAppointments, slot) ==
    \E apt \in existingAppointments :
        timeToMinutes(apt.start_time) <= slot /\ timeToMinutes(apt.end_time) > slot

\* Mutant: a slot is pushed without looking whether the list has it already.
PushSlot_noIncludes(allSlots, existingAppointments, slot) ==
    IF ~isOccupied(existingAppointments, slot)
    THEN Append(allSlots, minutesToTime(slot))
    ELSE allSlots

\* The body of the for loop: lines 1174-1185.
PushSlot(allSlots, existingAppointments, slot) ==
    IF ~isOccupied(existingAppointments, slot) /\ ~Includes(allSlots, minutesToTime(slot))
    THEN Append(allSlots, minutesToTime(slot))
    ELSE allSlots

\* for (slot = startMinutes; slot <= endMinutes - duration; slot += 30): line 1173
RECURSIVE SlotLoop(_, _, _, _, _)
SlotLoop(allSlots, existingAppointments, slot, endMinutes, duration) ==
    IF slot <= endMinutes - duration
    THEN SlotLoop(PushSlot(allSlots, existingAppointments, slot), existingAppointments,
                  slot + slotInterval, endMinutes, duration)
    ELSE allSlots

\* availabilities.forEach(availability => ...): lines 1165-1187
RECURSIVE AvailabilityLoop(_, _, _, _)
AvailabilityLoop(allSlots, availabilities, existingAppointments, duration) ==
    IF availabilities = <<>> THEN allSlots
    ELSE AvailabilityLoop(
             SlotLoop(allSlots, existingAppointments,
                      timeToMinutes(Head(availabilities).start_time),
                      timeToMinutes(Head(availabilities).end_time), duration),
             Tail(availabilities), existingAppointments, duration)

getAvailableSlots(fail, appts, scheduleId, date, duration) ==
    LET providers == IF fail.at = "slotProviders" THEN {}
                     ELSE ActiveProviders(scheduleId)
        Matches(a) == /\ fail.at # "availability"
                      /\ a.provider_id \in {p.id : p \in providers}
                      /\ a.day_of_week = dayOfWeek(date)
        availabilities == SelectSeq(availabilityTable, Matches)
        \* existingAppointments?.some(...) is undefined when the query gave null
        existingAppointments == IF fail.at = "existing" THEN {}
                                ELSE ExistingAppointments(appts, scheduleId, date)
    IN IF Throws(fail, "slotProviders") \/ providers = {} THEN <<>>
       ELSE IF Throws(fail, "availability") \/ availabilities = <<>> THEN <<>>
       ELSE IF Throws(fail, "existing") THEN <<>>       \* the catch of line 1191
       ELSE Sort(AvailabilityLoop(<<>>, availabilities, existingAppointments, duration))

----------------------------------------------------------------------------
(* checkAvailability: lines 1029-1113 *)

defaultDuration == 30

ServiceRow(serviceId) == {r \in serviceRows : r.id = serviceId}

\* parseInt(durationParts[0]) * 60 + parseInt(durationParts[1])
ParseDuration(duration) == duration[1] * 60 + duration[2]

\* serviceDuration of lines 1047-1069
ServiceDuration(serviceId) ==
    LET service == ServiceRow(serviceId)
    IN IF serviceId # NoService /\ service # {}
       THEN ParseDuration((CHOOSE r \in service : TRUE).duration)
       ELSE defaultDuration

checkAvailability(fail, appts, scheduleId, date, time, serviceId) ==
    IF Throws(fail, "schedule")
    THEN [success |-> FALSE, message |-> [kind |-> "error_checking_availability"]]
    ELSE IF Errs(fail, "schedule") \/ scheduleId \notin {r.id : r \in scheduleRows}
    THEN [success |-> FALSE, message |-> [kind |-> "schedule_not_found"]]
    ELSE LET availableSlots ==
                 getAvailableSlots(fail, appts, scheduleId, date, ServiceDuration(serviceId))
         IN IF time = NoTime
            THEN [success |-> TRUE,
                  available |-> Len(availableSlots) > 0,
                  date |-> date,
                  available_times |-> availableSlots,
                  message |-> [kind |-> IF Len(availableSlots) > 0
                                        THEN "time_slots_available" ELSE "no_available_slots"]]
            ELSE [success |-> TRUE,
                  available |-> Includes(availableSlots, time),
                  date |-> date,
                  requested_time |-> time,
                  available_times |-> availableSlots,
                  message |-> [kind |-> IF Includes(availableSlots, time)
                                        THEN "slot_available" ELSE "no_availability"]]

----------------------------------------------------------------------------
(* createAppointment: lines 1211-1319 *)

\* the result of an operation together with the table it leaves
Outcome(appts, result) == [appts |-> appts, result |-> result]

\* Mutant: the duration is not added.
EndTime_noDuration(time, duration) == time

\* end time "HH:MM" of lines 1238-1253; time.split throws when time is undefined
\* and the catch leaves endTime = time.
EndTime(time, duration) ==
    IF time = NoTime THEN time
    ELSE LET endMinutes == timeToMinutes(time) + ParseDuration(duration)
         IN <<endMinutes \div 60, endMinutes % 60>>

\* .limit(1).single() on the active providers of the schedule
FirstActiveProvider(scheduleId) ==
    LET rows == {j \in DOMAIN providerRows :
                    /\ providerRows[j].schedule_id = scheduleId
                    /\ providerRows[j].status = "active"}
    IN IF rows = {} THEN NoProvider
       ELSE providerRows[CHOOSE j \in rows : \A k \in rows : j <= k].profile_id

\* Mutant: the re-check only asks whether the date has any open slot.
createAppointment_anySlot(fail, appts, scheduleId, customerId, date, time, serviceId, providerId) ==
    LET availabilityCheck == checkAvailability(fail, appts, scheduleId, date, NoTime, serviceId)
        serviceData == ServiceRow(serviceId)
    IN IF ~("available" \in DOMAIN availabilityCheck /\ availabilityCheck.available)
          \/ serviceData = {}
       THEN Outcome(appts,
              [success |-> FALSE,
               message |-> [kind |-> "slot_not_available", available_times |-> <<>>]])
       ELSE Outcome(Append(appts,
                [id |-> Len(appts) + 1, schedule_id |-> scheduleId,
                 customer_id |-> customerId, provider_id |-> providerId,
                 service_id |-> serviceId, date |-> date, start_time |-> time,
                 end_time |-> EndTime(time, (CHOOSE r \in serviceData : TRUE).duration),
                 status |-> "scheduled", metadata |-> {"created_via", "creation_date"}]),
              [success |-> TRUE, appointment_id |-> Len(appts) + 1, date |-> date,
               time |-> time,
               end_time |-> EndTime(time, (CHOOSE r \in serviceData : TRUE).duration),
               service_id |-> serviceId, message |-> [kind |-> "appointment_created"]])

\* lines 1216-1319: what createAppointment does once checkAvailability has answered,
\* appts being the table at the time of the insert
AfterCheck(fail, appts, availabilityCheck, scheduleId, customerId, date, time, serviceId, providerId) ==
    LET serviceData == ServiceRow(serviceId)
    IN IF ~("available" \in DOMAIN availabilityCheck /\ availabilityCheck.available)
       THEN IF "available_times" \in DOMAIN availabilityCheck
            THEN Outcome(appts,
                   [success |-> FALSE,
                    message |-> [kind |-> "slot_not_available",
                                 available_times |-> availabilityCheck.available_times]])
            ELSE \* available_times is undefined: .join throws, caught at line 1311
                 Outcome(appts,
                   [success |-> FALSE, message |-> [kind |-> "error_creating_appointment"]])
       ELSE IF serviceData = {}
       THEN Outcome(appts,
              [success |-> FALSE, message |-> [kind |-> "service_not_found"]])
       ELSE IF fail.at = "insert"
       THEN Outcome(appts,
              [success |-> FALSE, message |-> [kind |-> "error_creating_appointment"]])
       ELSE LET endTime == EndTime(time, (CHOOSE r \in serviceData : TRUE).duration)
                selectedProviderId ==
                    IF providerId # NoProvider THEN providerId
                    ELSE FirstActiveProvider(scheduleId)
                appointment ==
                    [id |-> Len(appts) + 1,
                     schedule_id |-> scheduleId,
                     customer_id |-> customerId,
                     provider_id |-> selectedProviderId,
                     service_id |-> serviceId,
                     date |-> date,
                     start_time |-> time,
                     end_time |-> endTime,
                     status |-> "scheduled",
                     metadata |-> {"created_via", "creation_date"}]
            IN Outcome(Append(appts, appointment),
                 [success |-> TRUE,
                  appointment_id |-> appointment.id,
                  date |-> date,
                  time |-> time,
                  end_time |-> endTime,
                  service_id |-> serviceId,
                  message |-> [kind |-> "appointment_created"]])

createAppointment(fail, appts, scheduleId, customerId, date, time, serviceId, providerId) ==
    AfterCheck(fail, appts, checkAvailability(fail, appts, scheduleId, date, time, serviceId),
               scheduleId, customerId, date, time, serviceId, providerId)

----------------------------------------------------------------------------
(* deleteAppointment: lines 1406-1537 *)

\* Mutant: the update writes the status the row was created with.
Cancel_reschedules(appointment) ==
    [appointment EXCEPT !.status = "scheduled",
                        !.metadata = @ \cup {"canceled_at", "canceled_via"}]

\* Mutant: the update writes a metadata object of its own.
Cancel_freshMetadata(appointment) ==
    [appointment EXCEPT !.status = "canceled",
                        !.metadata = {"canceled_at", "canceled_via"}]

Cancel(appointment) ==
    [appointment EXCEPT !.status = "canceled",
                        !.metadata = @ \cup {"canceled_at", "canceled_via"}]

\* Mutant: a row is counted whether or not its update answered with an error.
CancelOne_countsFailed(loop, i, failing) ==
    IF loop.appts[i].id \in failing
    THEN [loop EXCEPT !.canceled = Append(@, loop.appts[i].id)]
    ELSE [appts |-> [loop.appts EXCEPT ![i] = Cancel(@)],
          canceled |-> Append(loop.canceled, loop.appts[i].id)]

\* One turn of the loop of lines 1488-1510 whose update does not raise: the update
\* of a row in failing answers with an error and the row is left out of the count.
CancelOne(loop, i, failing) ==
    IF loop.appts[i].id \in failing
    THEN loop
    ELSE [appts |-> [loop.appts EXCEPT ![i] = Cancel(@)],
          canceled |-> Append(loop.canceled, loop.appts[i].id)]

\* for (const appointment of appointments): the rows found, in table order. An
\* update that raises leaves the loop for the catch of line 1529.
RECURSIVE CancelLoop(_, _, _, _, _)
CancelLoop(loop, found, i, failing, mode) ==
    IF i > Len(loop.appts) THEN [thrown |-> FALSE, appts |-> loop.appts, canceled |-> loop.canceled]
    ELSE IF i \notin found THEN CancelLoop(loop, found, i + 1, failing, mode)
    ELSE IF loop.appts[i].id \in failing /\ mode = "throws"
    THEN [thrown |-> TRUE, appts |-> loop.appts, canceled |-> loop.canceled]
    ELSE CancelLoop(CancelOne(loop, i, failing), found, i + 1, failing, mode)

\* The by-date mode once the select has answered: lines 1475-1522. failing holds the
\* identifiers of the rows whose update fails, mode tells how.
cancelFound(appts, found, date, failing, mode) ==
    LET loop == CancelLoop([appts |-> appts, canceled |-> <<>>], found, 1, failing, mode)
    IN IF found = {}
       THEN Outcome(appts,
              [success |-> FALSE, message |-> [kind |-> "no_appointments_for_date"]])
       ELSE IF loop.thrown
       THEN Outcome(loop.appts,
              [success |-> FALSE, message |-> [kind |-> "error_canceling_appointment"]])
       ELSE Outcome(loop.appts,
              [success |-> TRUE,
               canceled_count |-> Len(loop.canceled),
               canceled_appointments |-> {loop.canceled[k] : k \in DOMAIN loop.canceled},
               date |-> date,
               message |-> [kind |-> "appointments_canceled"]])

\* Mutant: the row is looked up by its identifier alone.
deleteAppointment_anyCustomer(fail, appts, appointmentId, customerId, date, scheduleId) ==
    IF appointmentId # NoId
    THEN LET found == {i \in DOMAIN appts :
                          /\ appts[i].id = appointmentId
                          /\ appts[i].status \in {"scheduled", "confirmed"}}
         IN IF Throws(fail, "select")
            THEN Outcome(appts,
                   [success |-> FALSE, message |-> [kind |-> "error_canceling_appointment"]])
            ELSE IF Errs(fail, "select") \/ found = {}
            THEN Outcome(appts,
                   [success |-> FALSE, message |-> [kind |-> "appointment_not_found"]])
            ELSE IF fail.at = "update"
            THEN Outcome(appts,
                   [success |-> FALSE, message |-> [kind |-> "error_canceling_appointment"]])
            ELSE Outcome([i \in DOMAIN appts |->
                             IF appts[i].id = appointmentId THEN Cancel(appts[i]) ELSE appts[i]],
                   [success |-> TRUE,
                    appointment_id |-> appointmentId,
                    date |-> appts[CHOOSE i \in found : TRUE].date,
                    time |-> appts[CHOOSE i \in found : TRUE].start_time,
                    message |-> [kind |-> "appointment_canceled"]])
    ELSE IF date # NoDate
    THEN LET found == {i \in DOMAIN appts :
                          /\ appts[i].customer_id = customerId
                          /\ appts[i].date = date
                          /\ appts[i].status \in {"scheduled", "confirmed"}
                          /\ (scheduleId # NoSchedule => appts[i].schedule_id = scheduleId)}
         IN IF fail.at = "select"
            THEN Outcome(appts,
                   [success |-> FALSE, message |-> [kind |-> "error_canceling_appointment"]])
            ELSE IF found = {}
            THEN Outcome(appts,
                   [success |-> FALSE, message |-> [kind |-> "no_appointments_for_date"]])
            ELSE IF Throws(fail, "update")
            THEN Outcome(appts,
                   [success |-> FALSE, message |-> [kind |-> "error_canceling_appointment"]])
            ELSE IF Errs(fail, "update")       \* updateError is not looked at beyond the count
            THEN Outcome(appts,
                   [success |-> TRUE,
                    canceled_count |-> 0,
                    canceled_appointments |-> {},
                    date |-> date,
                    message |-> [kind |-> "appointments_canceled"]])
            ELSE Outcome([i \in DOMAIN appts |->
                             IF i \in found THEN Cancel(appts[i]) ELSE appts[i]],
                   [success |-> TRUE,
                    canceled_count |-> Cardinality(found),
                    canceled_appointments |-> {appts[i].id : i \in found},
                    date |-> date,
                    message |-> [kind |-> "appointments_canceled"]])
    ELSE Outcome(appts,
           [success |-> FALSE, message |-> [kind |-> "id_or_date_required"]])


\* Mutant: the by-date query does not filter by schedule.
deleteAppointment_everySchedule(fail, appts, appointmentId, customerId, date, scheduleId) ==
    IF appointmentId # NoId
    THEN LET found == {i \in DOMAIN appts :
                          /\ appts[i].id = appointmentId
                          /\ appts[i].customer_id = customerId
                          /\ appts[i].status \in {"scheduled", "confirmed"}}
         IN IF Throws(fail, "select")
            THEN Outcome(appts,
                   [success |-> FALSE, message |-> [kind |-> "error_canceling_appointment"]])
            ELSE IF Errs(fail, "select") \/ found = {}
            THEN Outcome(appts,
                   [success |-> FALSE, message |-> [kind |-> "appointment_not_found"]])
            ELSE IF fail.at = "update"
            THEN Outcome(appts,
                   [success |-> FALSE, message |-> [kind |-> "error_canceling_appointment"]])
            ELSE Outcome([i \in DOMAIN appts |->
                             IF appts[i].id = appointmentId THEN Cancel(appts[i]) ELSE appts[i]],
                   [success |-> TRUE,
                    appointment_id |-> appointmentId,
                    date |-> appts[CHOOSE i \in found : TRUE].date,
                    time |-> appts[CHOOSE i \in found : TRUE].start_time,
                    message |-> [kind |-> "appointment_canceled"]])
    ELSE IF date # NoDate
    THEN LET found == {i \in DOMAIN appts :
                          /\ appts[i].customer_id = customerId
                          /\ appts[i].date = date
                          /\ appts[i].status \in {"scheduled", "confirmed"}}
         IN IF fail.at = "select"
            THEN Outcome(appts,
                   [success |-> FALSE, message |-> [kind |-> "error_canceling_appointment"]])
            ELSE IF found = {}
            THEN Outcome(appts,
                   [success |-> FALSE, message |-> [kind |-> "no_appointments_for_date"]])
            ELSE IF Throws(fail, "update")
            THEN Outcome(appts,
                   [success |-> FALSE, message |-> [kind |-> "error_canceling_appointment"]])
            ELSE IF Errs(fail, "update")       \* updateError is not looked at beyond the count
            THEN Outcome(appts,
                   [success |-> TRUE,
                    canceled_count |-> 0,
                    canceled_appointments |-> {},
                    date |-> date,
                    message |-> [kind |-> "appointments_canceled"]])
            ELSE Outcome([i \in DOMAIN appts |->
                             IF i \in found THEN Cancel(appts[i]) ELSE appts[i]],
                   [success |-> TRUE,
                    canceled_count |-> Cardinality(found),
                    canceled_appointments |-> {appts[i].id : i \in found},
                    date |-> date,
                    message |-> [kind |-> "appointments_canceled"]])
    ELSE Outcome(appts,
           [success |-> FALSE, message |-> [kind |-> "id_or_date_required"]])


deleteAppointment(fail, appts, appointmentId, customerId, date, scheduleId) ==
    IF appointmentId # NoId
    THEN LET found == {i \in DOMAIN appts :
                          /\ appts[i].id = appointmentId
                          /\ appts[i].customer_id = customerId
                          /\ appts[i].status \in {"scheduled", "confirmed"}}
         IN IF Throws(fail, "select")
            THEN Outcome(appts,
                   [success |-> FALSE, message |-> [kind |-> "error_canceling_appointment"]])
            ELSE IF Errs(fail, "select") \/ found = {}
            THEN Outcome(appts,
                   [success |-> FALSE, message |-> [kind |-> "appointment_not_found"]])
            ELSE IF fail.at = "update"
            THEN Outcome(appts,
                   [success |-> FALSE, message |-> [kind |-> "error_canceling_appointment"]])
            ELSE Outcome([i \in DOMAIN appts |->
                             IF appts[i].id = appointmentId THEN Cancel(appts[i]) ELSE appts[i]],
                   [success |-> TRUE,
                    appointment_id |-> appointmentId,
                    date |-> appts[CHOOSE i \in found : TRUE].date,
                    time |-> appts[CHOOSE i \in found : TRUE].start_time,
                    message |-> [kind |-> "appointment_canceled"]])
    ELSE IF date # NoDate
    THEN LET found == {i \in DOMAIN appts :
                          /\ appts[i].customer_id = customerId
                          /\ appts[i].date = date
                          /\ appts[i].status \in {"scheduled", "confirmed"}
                          /\ (scheduleId # NoSchedule => appts[i].schedule_id = scheduleId)}
         IN IF fail.at = "select"
            THEN Outcome(appts,
                   [success |-> FALSE, message |-> [kind |-> "error_canceling_appointment"]])
            ELSE cancelFound(appts, found, date,
                             IF fail.at = "update" THEN {appts[i].id : i \in found} ELSE {},
                             fail.mode)
    ELSE Outcome(appts,
           [success |-> FALSE, message |-> [kind |-> "id_or_date_required"]])

----------------------------------------------------------------------------
(* The appointment operations as steps, each running to completion *)

\* What lastCall keeps of a returned envelope: its success flag and which message.
Returned(op, result) ==
    [op |-> op, success |-> result.success, message |-> result.message.kind,
     args |-> <<>>]

CheckAvailability(scheduleId, date, time, serviceId) ==
    /\ lastCall' = Returned("checkAvailability",
                             checkAvailability(NoFail, appointments, scheduleId, date, time, serviceId))
    /\ UNCHANGED <<cacheVars, now, appointments, serviceStatus, scheduleStatus, inFlight>>

CreateAppointment(scheduleId, customerId, date, time, serviceId, providerId) ==
    /\ Len(appointments) < MaxAppts
    /\ LET out == createAppointment(NoFail, appointments, scheduleId, customerId, date, time,
                                    serviceId, providerId)
       IN /\ appointments' = out.appts
          /\ lastCall' = [Returned("createAppointment", out.result) EXCEPT
                              !.args = <<scheduleId, date, time, serviceId>>]
    /\ UNCHANGED <<cacheVars, now, serviceStatus, scheduleStatus, inFlight>>

DeleteAppointment(appointmentId, customerId, date, scheduleId) ==
    /\ LET out == deleteAppointment(NoFail, appointments, appointmentId, customerId, date, scheduleId)
       IN /\ appointments' = out.appts
          /\ lastCall' = [Returned("deleteAppointment", out.result) EXCEPT
                              !.args = <<appointmentId, customerId, date, scheduleId>>]
    /\ UNCHANGED <<cacheVars, now, serviceStatus, scheduleStatus, inFlight>>

InitAppt == InitCommon /\ cacheOps = 0

NextAppt ==
    \/ \E s \in Schedules, d \in Dates, t \in Times \cup {NoTime},
          sv \in ServiceIds \cup {NoService} : CheckAvailability(s, d, t, sv)
    \/ \E s \in Schedules, c \in Customers, d \in Dates, t \in Times,
          sv \in ServiceIds, p \in {NoProvider, "pf2"} :
          CreateAppointment(s, c, d, t, sv, p)
    \/ \E id \in 1 .. MaxAppts, c \in Customers, s \in Schedules :
          DeleteAppointment(id, c, NoDate, s)
    \/ \E c \in Customers, d \in Dates, s \in Schedules \cup {NoSchedule} :
          DeleteAppointment(NoId, c, d, s)

SpecAppt == InitAppt /\ [][NextAppt]_vars

----------------------------------------------------------------------------
(* createAppointment calls that overlap in time: each call is suspended at   *)
(* its awaits, and the other call may run between the answer of              *)
(* checkAvailability (line 1214) and the insert (line 1272).                 *)

MaxInFlight == 2

\* a call that has started: lines 1211-1213
Started(scheduleId, customerId, date, time, serviceId, providerId) ==
    [op |-> "createAppointment", at |-> "checkAvailability",
     args |-> [scheduleId |-> scheduleId, customerId |-> customerId, date |-> date,
               time |-> time, serviceId |-> serviceId, providerId |-> providerId]]

StartCreateAppointment(scheduleId, customerId, date, time, serviceId, providerId) ==
    /\ Len(inFlight) < MaxInFlight
    /\ inFlight' = Append(inFlight, Started(scheduleId, customerId, date, time,
                                            serviceId, providerId))
    /\ lastCall' = [op |-> "start", call |-> Len(inFlight) + 1]
    /\ UNCHANGED <<cacheVars, now, appointments, serviceStatus, scheduleStatus>>

\* line 1214: checkAvailability answers from the table as it is now
AvailabilityAnswers(i) ==
    /\ i \in DOMAIN inFlight
    /\ inFlight[i].at = "checkAvailability"
    /\ LET a == inFlight[i].args
       IN inFlight' = [inFlight EXCEPT ![i] =
              [op |-> "createAppointment", at |-> "insert", args |-> a,
               sawRows |-> Len(appointments),
               availabilityCheck |->
                   checkAvailability(NoFail, appointments, a.scheduleId, a.date, a.time,
                                     a.serviceId)]]
    /\ lastCall' = [op |-> "checkAvailability", call |-> i]
    /\ UNCHANGED <<cacheVars, now, appointments, serviceStatus, scheduleStatus>>

\* Mutant: the slot is looked up again in the table the row is inserted into.
InsertAnswers_atomic(i) ==
    /\ i \in DOMAIN inFlight
    /\ inFlight[i].at = "insert"
    /\ LET a == inFlight[i].args
           out == createAppointment(NoFail, appointments, a.scheduleId, a.customerId,
                                    a.date, a.time, a.serviceId, a.providerId)
       IN /\ appointments' = out.appts
          /\ inFlight' = [inFlight EXCEPT ![i] =
                 [op |-> "createAppointment", at |-> "returned", args |-> a,
                  sawRows |-> inFlight[i].sawRows,
                  availabilityCheck |-> inFlight[i].availabilityCheck,
                  result |-> out.result]]
    /\ lastCall' = [op |-> "insert", call |-> i]
    /\ UNCHANGED <<cacheVars, now, serviceStatus, scheduleStatus>>

\* lines 1216-1319: the rest of the call, on the table as it is now
InsertAnswers(i) ==
    /\ i \in DOMAIN inFlight
    /\ inFlight[i].at = "insert"
    /\ LET a == inFlight[i].args
           out == AfterCheck(NoFail, appointments, inFlight[i].availabilityCheck,
                             a.scheduleId, a.customerId, a.date, a.time, a.serviceId,
                             a.providerId)
       IN /\ appointments' = out.appts
          /\ inFlight' = [inFlight EXCEPT ![i] =
                 [op |-> "createAppointment", at |-> "returned", args |-> a,
                  sawRows |-> inFlight[i].sawRows,
                  availabilityCheck |-> inFlight[i].availabilityCheck,
                  result |-> out.result]]
    /\ lastCall' = [op |-> "insert", call |-> i]
    /\ UNCHANGED <<cacheVars, now, serviceStatus, scheduleStatus>>

InitRace == InitCommon /\ cacheOps = 0

NextRace ==
    \/ \E c \in Customers, t \in Times, sv \in ServiceIds \cup {NoService},
          p \in {NoProvider, "pf2"} :
          StartCreateAppointment("s1", c, "d1", t, sv, p)
    \/ \E i \in 1 .. MaxInFlight : AvailabilityAnswers(i)
    \/ \E i \in 1 .. MaxInFlight : InsertAnswers(i)

SpecRace == InitRace /\ [][NextRace]_vars

----------------------------------------------------------------------------
(* Source of truth read by the dispatcher *)

\* profiles rows joined to schedule_providers (lines 628-635)
profileRows ==
    { [id |-> "pf1", full_name |-> <<"A", "n">>],
      [id |-> "pf2", full_name |-> <<"B", "o">>],
      [id |-> "pf3", full_name |-> <<"C", "y">>] }

\* teams rows, in table order: organization o2 has none
teamRows == << [id |-> "t1", name |-> <<"S", "u">>, organization_id |-> "o1"] >>

\* flows rows, in table order: organization o2 has none, f2 is not active
flowRows ==
    << [id |-> "f1", name |-> <<"O", "n">>, organization_id |-> "o1", is_active |-> TRUE],
       [id |-> "f2", name |-> <<"O", "f">>, organization_id |-> "o1", is_active |-> FALSE] >>

\* schedule_services rows in table order
serviceTable ==
    << CHOOSE r \in serviceRows : r.id = "sv1", CHOOSE r \in serviceRows : r.id = "sv2" >>

----------------------------------------------------------------------------
(* Strings and name maps: lines 459-506 *)

\* a property that is undefined
NoValue == "undefined"
NoName == <<>>
\* a name argument that is not a string (a number)
NotAString == <<"#number">>

UpperCase == <<"A", "B", "C", "D", "E", "F", "G", "H", "I", "J", "K", "L", "M",
               "N", "O", "P", "Q", "R", "S", "T", "U", "V", "W", "X", "Y", "Z">>
LowerCase == <<"a", "b", "c", "d", "e", "f", "g", "h", "i", "j", "k", "l", "m",
               "n", "o", "p", "q", "r", "s", "t", "u", "v", "w", "x", "y", "z">>

LowerOf ==
    [ch \in {UpperCase[i] : i \in DOMAIN UpperCase} |->
        LowerCase[CHOOSE i \in DOMAIN UpperCase : UpperCase[i] = ch]]

Lower(ch) == IF ch \in DOMAIN LowerOf THEN LowerOf[ch] ELSE ch

toLowerCase(str) == [i \in DOMAIN str |-> Lower(str[i])]

\* A map is a plain object: its own keys are DOMAIN map, and a lookup of a key it
\* does not own finds what Object.prototype holds under that key, if anything.
EmptyMap == <<>>
InheritedKeys == { <<"c", "o", "n", "s", "t", "r", "u", "c", "t", "o", "r">> }
InheritedValue == "[Function: Object]"

Lookup(map, key) ==
    IF key \in DOMAIN map THEN map[key]
    ELSE IF key \in InheritedKeys THEN InheritedValue
    ELSE NoValue

\* a null element of items, and a null value of a property holding an object
NoItem == [null |-> TRUE]

\* items null, and items an object that is not an array; an array is a sequence
NoItems == << [notAnArray |-> "null"] >>
NotAnArray == << [notAnArray |-> "object"] >>

\* key.split('.') for the keys that include a dot (lines 469-470, 486-487)
Split ==
    ("profiles.full_name" :> <<"profiles", "full_name">>)
        @@ ("profiles.id" :> <<"profiles", "id">>)

\* the loop of lines 471-475 and 488-492, nested being the value reached so far;
\* missing is undefined
RECURSIVE Nested(_, _, _)
Nested(nested, keys, missing) ==
    IF keys = <<>> THEN nested
    ELSE IF nested = NoItem THEN missing
    ELSE IF Head(keys) \notin DOMAIN nested THEN missing
    ELSE Nested(nested[Head(keys)], Tail(keys), missing)

\* lines 467-481 and 484-498: item[key], and the nested property when that is falsy
\* and the key includes a dot
Property(item, key, missing) ==
    LET direct == IF key \in DOMAIN item THEN item[key] ELSE missing
    IN IF direct = missing /\ key \in DOMAIN Split
       THEN Nested(item, Split[key], missing)
       ELSE direct

\* Mutant: a name already in the map keeps its first identifier.
RECURSIVE createNameToIdMapLoop_firstWins(_, _, _, _)
createNameToIdMapLoop_firstWins(map, items, nameKey, idKey) ==
    IF items = <<>> THEN map
    ELSE LET item == Head(items)
             skip == \/ item = NoItem
                     \/ Property(item, nameKey, NoName) = NoName
                     \/ Property(item, idKey, NoValue) = NoValue
             next == IF skip THEN map
                     ELSE LET key == toLowerCase(Property(item, nameKey, NoName))
                          IN [k \in DOMAIN map \cup {key} |->
                                 IF k \in DOMAIN map THEN map[k]
                                 ELSE Property(item, idKey, NoValue)]
         IN createNameToIdMapLoop_firstWins(next, Tail(items), nameKey, idKey)

\* the loop of lines 463-503, map being the object built so far
RECURSIVE createNameToIdMapLoop(_, _, _, _)
createNameToIdMapLoop(map, items, nameKey, idKey) ==
    IF items = <<>> THEN map
    ELSE LET item == Head(items)
             skip == \/ item = NoItem
                     \/ Property(item, nameKey, NoName) = NoName
                     \/ Property(item, idKey, NoValue) = NoValue
             next == IF skip THEN map
                     ELSE LET key == toLowerCase(Property(item, nameKey, NoName))
                          IN [k \in DOMAIN map \cup {key} |->
                                 IF k = key THEN Property(item, idKey, NoValue)
                                 ELSE map[k]]
         IN createNameToIdMapLoop(next, Tail(items), nameKey, idKey)

createNameToIdMap(items, nameKey, idKey) ==
    IF items \in {NoItems, NotAnArray} THEN EmptyMap           \* line 461
    ELSE createNameToIdMapLoop(EmptyMap, items, nameKey, idKey)

MaxItems == 2

\* Items as the callers pass them and as the function allows them: null, with and
\* without a name and an identifier, with names equal up to case, and with the name
\* or the identifier under profiles.
Items ==
    { NoItem,
      [name |-> <<"A", "n">>, id |-> "i1"],
      [name |-> <<"a", "N">>, id |-> "i2"],
      [name |-> <<"B", "o">>, id |-> "i3"],
      [name |-> <<"A", "n">>],
      [id |-> "i1"],
      [name |-> NoName, id |-> "i1"],
      [name |-> <<"B", "o">>, id |-> NoValue],
      [profiles |-> [full_name |-> <<"A", "n">>, id |-> "i4"], id |-> "i7"],
      [profiles |-> [full_name |-> <<"a", "n">>], id |-> "i5"],
      [profiles |-> [id |-> "i6"]],
      [profiles |-> NoItem, id |-> "i6"] }

ItemLists ==
    {NoItems, NotAnArray} \cup UNION { [1 .. n -> Items] : n \in 0 .. MaxItems }

\* nameKey and idKey as given by the callers (lines 600, 642, 717, 785), and with
\* a dot
KeyPairs ==
    { <<"name", "id">>, <<"profiles.full_name", "profiles.id">>,
      <<"profiles.full_name", "id">> }

CreateNameToIdMap(items, nameKey, idKey) ==
    /\ cacheOps > 0
    /\ cacheOps' = cacheOps - 1
    /\ lastCall' = [op |-> "createNameToIdMap", items |-> items, nameKey |-> nameKey,
                    idKey |-> idKey, map |-> createNameToIdMap(items, nameKey, idKey)]
    /\ UNCHANGED <<nameToIdCache, lastSet, now, appointments, serviceStatus,
                   scheduleStatus, inFlight>>

MaxMapOps == 2

InitMap == InitCommon /\ cacheOps = MaxMapOps

\* The function is called while the cache is empty and while it holds a map.
NextMap ==
    \/ \E items \in ItemLists, keys \in KeyPairs :
          CreateNameToIdMap(items, keys[1], keys[2])
    \/ \E o \in Orgs, map \in Maps : SetCachedMap(o, "teams", map, NoKey)

SpecMap == InitMap /\ [][NextMap]_vars

----------------------------------------------------------------------------
(* transformToolName: lines 139-146 *)

\* the characters [a-z0-9]
AlphaNumeric ==
    {LowerCase[i] : i \in DOMAIN LowerCase}
        \cup {"0", "1", "2", "3", "4", "5", "6", "7", "8", "9"}

\* .replace(/[^a-z0-9]/g, '_')
ReplaceOthers(str) ==
    [i \in DOMAIN str |-> IF str[i] \in AlphaNumeric THEN str[i] ELSE "_"]

\* .replace(/_+/g, '_')
RECURSIVE CollapseUnderscores(_)
CollapseUnderscores(str) ==
    IF Len(str) < 2 THEN str
    ELSE IF str[1] = "_" /\ str[2] = "_" THEN CollapseUnderscores(Tail(str))
    ELSE <<str[1]>> \o CollapseUnderscores(Tail(str))

\* .replace(/^_|_$/g, ''): one underscore at the start and one at the end
TrimUnderscores(str) ==
    LET first == IF str # <<>> /\ str[1] = "_" THEN Tail(str) ELSE str
    IN IF first # <<>> /\ first[Len(first)] = "_"
       THEN SubSeq(first, 1, Len(first) - 1)
       ELSE first

\* Mutant: the underscores at the ends are kept.
transformToolName_untrimmed(name) ==
    IF name = NoName THEN <<>>
    ELSE CollapseUnderscores(ReplaceOthers(toLowerCase(name)))

transformToolName(name) ==
    IF name = NoName THEN <<>>
    ELSE TrimUnderscores(CollapseUnderscores(ReplaceOthers(toLowerCase(name))))

MaxLen == 3

\* Names to transform: letters in both cases, a digit, and the characters the
\* tool-name pattern allows or forbids besides them.
NameChars == {"a", "B", "1", "_", "-", " "}
Names == UNION { [1 .. n -> NameChars] : n \in 0 .. MaxLen }

TransformToolName(name) ==
    /\ lastCall' = [op |-> "transformToolName", name |-> name,
                    result |-> transformToolName(name)]
    /\ UNCHANGED <<cacheVars, now, appointments, serviceStatus, scheduleStatus, inFlight>>

InitNames == InitCommon /\ cacheOps = 0

NextNames == \E name \in Names : TransformToolName(name)

SpecNames == InitNames /\ [][NextNames]_vars

----------------------------------------------------------------------------
(* checkAppointment: lines 1328-1396 *)

\* order('date').order('start_time'); rows that tie are taken in id order
ComesBefore(a, b) ==
    \/ StringLess(<<dayOfWeek(a.date), 0>>, <<dayOfWeek(b.date), 0>>)
    \/ a.date = b.date /\ timeToMinutes(a.start_time) < timeToMinutes(b.start_time)
    \/ a.date = b.date /\ a.start_time = b.start_time /\ a.id < b.id

RECURSIVE OrderRows(_)
OrderRows(S) ==
    IF S = {} THEN <<>>
    ELSE LET first == CHOOSE x \in S : \A y \in S \ {x} : ComesBefore(x, y)
         IN <<first>> \o OrderRows(S \ {first})

\* Mutant: the query does not filter by status.
checkAppointment_anyStatus(fail, appts, customerId, appointmentId, scheduleId) ==
    LET data == OrderRows({appts[i] : i \in {j \in DOMAIN appts :
                    /\ appts[j].customer_id = customerId
                    /\ (scheduleId # NoSchedule => appts[j].schedule_id = scheduleId)
                    /\ (appointmentId # NoId => appts[j].id = appointmentId)}})
        found == [i \in DOMAIN data |->
                     [id |-> data[i].id, date |-> data[i].date, time |-> data[i].start_time,
                      end_time |-> data[i].end_time, status |-> data[i].status,
                      schedule_name |-> (CHOOSE r \in scheduleRows :
                                             r.id = data[i].schedule_id).title,
                      service_name |-> IF ServiceRow(data[i].service_id) = {}
                                       THEN <<"?">>
                                       ELSE (CHOOSE r \in ServiceRow(data[i].service_id) :
                                                 TRUE).title]]
    IN IF fail.at = "select"
       THEN Outcome(appts,
              [success |-> FALSE, message |-> [kind |-> "error_checking_appointments"]])
       ELSE
       Outcome(appts,
         [success |-> TRUE, appointments |-> found, count |-> Len(found),
          message |-> [kind |-> IF Len(found) > 0 THEN "found_appointments"
                                ELSE "no_appointments_found"]])


checkAppointment(fail, appts, customerId, appointmentId, scheduleId) ==
    LET data == OrderRows({appts[i] : i \in {j \in DOMAIN appts :
                    /\ appts[j].customer_id = customerId
                    /\ appts[j].status \in {"scheduled", "confirmed"}
                    /\ (scheduleId # NoSchedule => appts[j].schedule_id = scheduleId)
                    /\ (appointmentId # NoId => appts[j].id = appointmentId)}})
        found == [i \in DOMAIN data |->
                     [id |-> data[i].id, date |-> data[i].date, time |-> data[i].start_time,
                      end_time |-> data[i].end_time, status |-> data[i].status,
                      schedule_name |-> (CHOOSE r \in scheduleRows :
                                             r.id = data[i].schedule_id).title,
                      service_name |-> IF ServiceRow(data[i].service_id) = {}
                                       THEN <<"?">>
                                       ELSE (CHOOSE r \in ServiceRow(data[i].service_id) :
                                                 TRUE).title]]
    IN IF fail.at = "select"
       THEN Outcome(appts,
              [success |-> FALSE, message |-> [kind |-> "error_checking_appointments"]])
       ELSE
       Outcome(appts,
         [success |-> TRUE, appointments |-> found, count |-> Len(found),
          message |-> [kind |-> IF Len(found) > 0 THEN "found_appointments"
                                ELSE "no_appointments_found"]])

----------------------------------------------------------------------------
(* The appointment operations on a table that other writers have filled *)

MaxRows == 2

\* Rows as the table can hold them: of either customer, date and schedule, in each
\* status, at two start times; the id is the position in the table.
RowAt(id, customerId, date, scheduleId, status, time) ==
    [id |-> id, schedule_id |-> scheduleId, customer_id |-> customerId,
     provider_id |-> "pf1", service_id |-> "sv1", date |-> date, start_time |-> time,
     end_time |-> EndTime(time, (CHOOSE r \in ServiceRow("sv1") : TRUE).duration),
     status |-> status,
     metadata |-> {"created_via", "creation_date"}]

Statuses == {"scheduled", "confirmed", "canceled"}

RowsAt(id) ==
    { RowAt(id, c, d, s, st, t) :
        c \in Customers, d \in Dates, s \in Schedules, st \in Statuses,
        t \in {<<9, 0>>, <<9, 30>>} }

Tables ==
    UNION { {t \in [1 .. n -> UNION {RowsAt(i) : i \in 1 .. n}] :
                \A i \in 1 .. n : t[i].id = i} : n \in 0 .. MaxRows }

CheckAppointment(customerId, appointmentId, scheduleId) ==
    /\ \E out \in {checkAppointment(NoFail, appointments, customerId, appointmentId, scheduleId)} :
          /\ appointments' = out.appts
          /\ lastCall' = [op |-> "checkAppointment", success |-> out.result.success,
                          message |-> out.result.message.kind,
                          args |-> <<customerId, appointmentId, scheduleId>>,
                          appointments |-> out.result.appointments,
                          count |-> out.result.count]
    /\ UNCHANGED <<cacheVars, now, serviceStatus, scheduleStatus, inFlight>>

InitTable ==
    /\ nameToIdCache = EmptyCache
    /\ now = 1
    /\ lastSet = [key \in CacheKeys |-> NoSet]
    /\ cacheOps = 0
    /\ lastCall = NoCall
    /\ serviceStatus = [id \in {"sv1", "sv2"} |-> "active"]
    /\ scheduleStatus = [id \in {"s1", "s2"} |-> "active"]
    /\ inFlight = <<>>
    /\ appointments \in Tables

NextTable ==
    \/ \E c \in Customers, d \in Dates, t \in Times :
          CreateAppointment("s1", c, d, t, "sv1", NoProvider)
    \/ \E id \in 1 .. MaxRows + 1, c \in Customers, d \in {NoDate, "d2"} :
          DeleteAppointment(id, c, d, NoSchedule)
    \/ \E c \in Customers, d \in Dates, s \in Schedules \cup {NoSchedule} :
          DeleteAppointment(NoId, c, d, s)
    \/ \E c \in Customers, id \in 0 .. MaxRows, s \in Schedules \cup {NoSchedule} :
          CheckAppointment(c, id, s)

SpecTable == InitTable /\ [][NextTable]_vars

----------------------------------------------------------------------------
(* deleteAppointment calls by identifier that overlap in time: each call is  *)
(* suspended at the select of line 1411 and at the update of line 1427.      *)

ReturnedCalls(inFlightCalls) == {k \in DOMAIN inFlightCalls : inFlightCalls[k].at = "returned"}

\* a call that has started: lines 1406-1410.  before holds the calls that had
\* returned by then.
StartDeleteAppointment(appointmentId, customerId) ==
    /\ Len(inFlight) < MaxInFlight
    /\ inFlight' = Append(inFlight,
           [op |-> "deleteAppointment", at |-> "select",
            args |-> [appointmentId |-> appointmentId, customerId |-> customerId],
            before |-> ReturnedCalls(inFlight)])
    /\ lastCall' = [op |-> "start", call |-> Len(inFlight) + 1]
    /\ UNCHANGED <<cacheVars, now, appointments, serviceStatus, scheduleStatus>>

\* lines 1411-1424: the select answers from the table as it is now
SelectAnswers(i) ==
    /\ i \in DOMAIN inFlight
    /\ inFlight[i].at = "select"
    /\ LET a == inFlight[i].args
           found == {k \in DOMAIN appointments :
                        /\ appointments[k].id = a.appointmentId
                        /\ appointments[k].customer_id = a.customerId
                        /\ appointments[k].status \in {"scheduled", "confirmed"}}
       IN inFlight' = [inFlight EXCEPT ![i] =
              IF found = {}
              THEN [op |-> "deleteAppointment", at |-> "returned", args |-> a,
                    before |-> inFlight[i].before, wrote |-> FALSE,
                    result |-> [success |-> FALSE,
                                message |-> [kind |-> "appointment_not_found"]]]
              ELSE [op |-> "deleteAppointment", at |-> "update", args |-> a,
                    before |-> inFlight[i].before,
                    appointment |-> appointments[CHOOSE k \in found : TRUE]]]
    /\ lastCall' = [op |-> "select", call |-> i]
    /\ UNCHANGED <<cacheVars, now, appointments, serviceStatus, scheduleStatus>>

\* lines 1426-1454: the update, filtered by the identifier alone, writes the status
\* and the metadata of the row that the select returned
UpdateAnswers(i) ==
    /\ i \in DOMAIN inFlight
    /\ inFlight[i].at = "update"
    /\ LET a == inFlight[i].args
           appointment == inFlight[i].appointment
       IN /\ appointments' =
                [k \in DOMAIN appointments |->
                    IF appointments[k].id = a.appointmentId
                    THEN [appointments[k] EXCEPT
                             !.status = "canceled",
                             !.metadata = appointment.metadata
                                              \cup {"canceled_at", "canceled_via"}]
                    ELSE appointments[k]]
          /\ inFlight' = [inFlight EXCEPT ![i] =
                 [op |-> "deleteAppointment", at |-> "returned", args |-> a,
                  before |-> inFlight[i].before, wrote |-> TRUE,
                  result |-> [success |-> TRUE,
                              appointment_id |-> a.appointmentId,
                              date |-> appointment.date,
                              time |-> appointment.start_time,
                              message |-> [kind |-> "appointment_canceled"]]]]
    /\ lastCall' = [op |-> "update", call |-> i]
    /\ UNCHANGED <<cacheVars, now, serviceStatus, scheduleStatus>>

\* Tables of one schedule and date.
InitCancelRace ==
    /\ InitTable
    /\ \A k \in DOMAIN appointments :
          appointments[k].schedule_id = "s1" /\ appointments[k].date = "d1"

NextCancelRace ==
    \/ \E id \in 1 .. MaxRows, c \in Customers : StartDeleteAppointment(id, c)
    \/ \E i \in 1 .. MaxInFlight : SelectAnswers(i)
    \/ \E i \in 1 .. MaxInFlight : UpdateAnswers(i)

SpecCancelRace == InitCancelRace /\ [][NextCancelRace]_vars

----------------------------------------------------------------------------
(* Bookings that may come without a time: args.time is optional in the tool   *)
(* (line 306) and is not among the parameters checked at lines 953-962.       *)

NextBook ==
    \/ \E s \in Schedules, c \in Customers, d \in Dates, t \in Times \cup {NoTime},
          sv \in ServiceIds, p \in {NoProvider, "pf2"} :
          CreateAppointment(s, c, d, t, sv, p)
    \/ \E id \in 1 .. MaxAppts, c \in Customers :
          DeleteAppointment(id, c, NoDate, NoSchedule)

SpecBook == InitAppt /\ [][NextBook]_vars

----------------------------------------------------------------------------
(* deleteAppointment by date when the updates of some rows fail *)

UpdateModes == {"error", "throws"}
MaxCancels == 1

\* The select answers; the update of each row whose identifier is in failing fails.
DeleteByDate(customerId, date, scheduleId, failing, mode) ==
    /\ cacheOps > 0
    /\ cacheOps' = cacheOps - 1
    /\ LET out == cancelFound(appointments,
                              {i \in DOMAIN appointments :
                                  /\ appointments[i].customer_id = customerId
                                  /\ appointments[i].date = date
                                  /\ appointments[i].status \in {"scheduled", "confirmed"}
                                  /\ (scheduleId # NoSchedule
                                         => appointments[i].schedule_id = scheduleId)},
                              date, failing, mode)
       IN /\ appointments' = out.appts
          /\ lastCall' = [op |-> "deleteAppointment", success |-> out.result.success,
                          message |-> out.result.message.kind,
                          args |-> <<NoId, customerId, date, scheduleId>>,
                          failing |-> failing, mode |-> mode,
                          canceled_count |-> IF out.result.success
                                             THEN out.result.canceled_count ELSE 0,
                          canceled_appointments |-> IF out.result.success
                                                    THEN out.result.canceled_appointments
                                                    ELSE {}]
    /\ UNCHANGED <<nameToIdCache, lastSet, now, serviceStatus, scheduleStatus, inFlight>>

NextCancel ==
    \E c \in Customers, d \in Dates, s \in Schedules \cup {NoSchedule},
       failing \in SUBSET (1 .. MaxRows), mode \in UpdateModes :
        DeleteByDate(c, d, s, failing, mode)

InitCancel ==
    /\ nameToIdCache = EmptyCache
    /\ now = 1
    /\ lastSet = [key \in CacheKeys |-> NoSet]
    /\ cacheOps = MaxCancels
    /\ lastCall = NoCall
    /\ serviceStatus = [id \in {"sv1", "sv2"} |-> "active"]
    /\ scheduleStatus = [id \in {"s1", "s2"} |-> "active"]
    /\ inFlight = <<>>
    /\ appointments \in Tables

SpecCancel == InitCancel /\ [][NextCancel]_vars

----------------------------------------------------------------------------
(* getAvailableSlots on a table that other writers have filled: rows of      *)
(* either provider on Monday d1 and Friday d3, around the Friday windows.    *)

SlotRowsAt(id) ==
    { [RowAt(id, "c1", d, s, st, t) EXCEPT !.provider_id = p] :
        d \in {"d1", "d3"}, s \in Schedules, st \in Statuses,
        t \in {<<9, 30>>, <<10, 0>>, <<10, 30>>}, p \in {"pf1", "pf2"} }

SlotTables ==
    UNION { {t \in [1 .. n -> UNION {SlotRowsAt(i) : i \in 1 .. n}] :
                \A i \in 1 .. n : t[i].id = i} : n \in 0 .. MaxRows }

GetAvailableSlots(scheduleId, date, duration) ==
    /\ lastCall' = [op |-> "getAvailableSlots", scheduleId |-> scheduleId, date |-> date,
                    duration |-> duration,
                    slots |-> getAvailableSlots(NoFail, appointments, scheduleId, date,
                                                duration)]
    /\ UNCHANGED <<cacheVars, now, appointments, serviceStatus, scheduleStatus, inFlight>>

InitSlots ==
    /\ nameToIdCache = EmptyCache
    /\ now = 1
    /\ lastSet = [key \in CacheKeys |-> NoSet]
    /\ cacheOps = 0
    /\ lastCall = NoCall
    /\ serviceStatus = [id \in {"sv1", "sv2"} |-> "active"]
    /\ scheduleStatus = [id \in {"s1", "s2"} |-> "active"]
    /\ inFlight = <<>>
    /\ appointments \in SlotTables

NextSlots ==
    \E s \in Schedules, d \in {"d1", "d3"}, duration \in {30, 60} :
        GetAvailableSlots(s, d, duration)

SpecSlots == InitSlots /\ [][NextSlots]_vars

----------------------------------------------------------------------------
(* What a call leaves behind *)

NoArgs == [null |-> TRUE]

\* Returned normally: the result, the cache and the table after the call, the
\* setCachedMap calls made (for lastSet) and the operations performed.
Done(result, cache, appts, sets, ops) ==
    [thrown |-> FALSE, result |-> result, cache |-> cache, appts |-> appts,
     sets |-> sets, ops |-> ops]

\* Left by an exception carrying message error.
Throw(error, cache, appts, sets, ops) ==
    [thrown |-> TRUE, error |-> error, cache |-> cache, appts |-> appts,
     sets |-> sets, ops |-> ops]

Error(message) == [status |-> "error", message |-> message]

\* A step of name resolution either ends the call or lets it go on.
Stop(out) == [stop |-> TRUE, out |-> out]
Continue(cache, args, sets, ops) ==
    [stop |-> FALSE, cache |-> cache, args |-> args, sets |-> sets, ops |-> ops]


----------------------------------------------------------------------------
(* processCheckScheduleAction: lines 883-1018 *)

SchedulingOps == {"checkAvailability", "createAppointment", "checkAppointment",
                  "deleteAppointment"}

\* Mutant: the status does not follow the success flag.
Enrich_alwaysSuccess(result, operation, serviceName, scheduleName, date, time, timezone) ==
    [status |-> "success",
     operation |-> operation,
     data |-> [service_name |-> serviceName, schedule_name |-> scheduleName,
               appointment_date |-> date, appointment_time |-> time,
               timezone |-> timezone] @@ result] @@ result

\* enrichedResult of lines 994-1006: later properties override those of result
Enrich(result, operation, serviceName, scheduleName, date, time, timezone) ==
    [status |-> IF result.success THEN "success" ELSE "error",
     operation |-> operation,
     data |-> [service_name |-> serviceName, schedule_name |-> scheduleName,
               appointment_date |-> date, appointment_time |-> time,
               timezone |-> timezone] @@ result] @@ result

\* Mutant: createAppointment is validated for its service only.
processCheckScheduleAction_dateOptional(cache, appts, sets, ops, action, args, session, fail) ==
    LET config == action.config
        operation == args.operation
        date == args.date
        time == args.time
        appointmentId == args.appointment_id
        serviceId == args.service_id
        providerId == args.provider_id
        scheduleId == config.scheduleId
        Fail(message) == Done(Error(message), cache, appts, sets, ops)
    IN IF operation = NoValue THEN Fail([kind |-> "operation_required"])
       ELSE IF scheduleId = NoSchedule THEN Fail([kind |-> "no_schedule_configured"])
       ELSE IF Throws(fail, "scheduleData")
       THEN Done(Error([kind |-> "error_processing_schedule_action", error |-> FetchFailed]),
                 cache, appts, sets, ops \cup {"fetch scheduleData"})
       ELSE
       LET scheduleData == {r \in scheduleRows : r.id = scheduleId /\ fail.at # "scheduleData"}
           timezone == IF scheduleData = {} THEN "America/Sao_Paulo"
                       ELSE (CHOOSE r \in scheduleData : TRUE).timezone
           scheduleName == IF scheduleData = {} THEN "Agenda"
                           ELSE (CHOOSE r \in scheduleData : TRUE).title
           service == IF serviceId = NoService THEN {} ELSE ServiceRow(serviceId)
           serviceName == IF service = {} THEN <<"?">> ELSE (CHOOSE r \in service : TRUE).title
           fetched == ops \cup {"fetch scheduleData"}
                          \cup (IF serviceId = NoService THEN {} ELSE {"fetch service"})
           Finish(out) ==
               Done(Enrich(out.result, operation, serviceName, scheduleName, date, time,
                           timezone),
                    cache, out.appts, sets, fetched \cup {operation})
       IN CASE operation = "checkAvailability" ->
                 Finish(Outcome(appts, checkAvailability(fail, appts, scheduleId, date, time,
                                                         serviceId)))
            [] operation = "createAppointment" ->
                 IF serviceId = NoService
                 THEN Done(Error([kind |-> "missing_required_parameters",
                                  missing |-> (IF date = NoDate THEN <<"date">> ELSE <<>>)
                                      \o (IF serviceId = NoService THEN <<"service_id">>
                                          ELSE <<>>)]),
                           cache, appts, sets, fetched)
                 ELSE Finish(createAppointment(fail, appts, scheduleId, session.customer_id, date,
                                               time, serviceId, providerId))
            [] operation = "checkAppointment" ->
                 Finish(checkAppointment(fail, appts, session.customer_id, appointmentId,
                                         scheduleId))
            [] operation = "deleteAppointment" ->
                 IF appointmentId = NoId /\ date = NoDate
                 THEN Done(Error([kind |-> "id_or_date_required_to_cancel"]),
                           cache, appts, sets, fetched)
                 ELSE Finish(deleteAppointment(fail, appts, appointmentId, session.customer_id,
                                               date, scheduleId))
            [] OTHER ->
                 Done(Error([kind |-> "unsupported_operation", operation |-> operation]),
                      cache, appts, sets, fetched)


processCheckScheduleAction(cache, appts, sets, ops, action, args, session, fail) ==
    LET config == action.config
        operation == args.operation
        date == args.date
        time == args.time
        appointmentId == args.appointment_id
        serviceId == args.service_id
        providerId == args.provider_id
        scheduleId == config.scheduleId
        Fail(message) == Done(Error(message), cache, appts, sets, ops)
    IN IF operation = NoValue THEN Fail([kind |-> "operation_required"])
       ELSE IF scheduleId = NoSchedule THEN Fail([kind |-> "no_schedule_configured"])
       ELSE IF Throws(fail, "scheduleData")
       THEN Done(Error([kind |-> "error_processing_schedule_action", error |-> FetchFailed]),
                 cache, appts, sets, ops \cup {"fetch scheduleData"})
       ELSE
       LET scheduleData == {r \in scheduleRows : r.id = scheduleId /\ fail.at # "scheduleData"}
           timezone == IF scheduleData = {} THEN "America/Sao_Paulo"
                       ELSE (CHOOSE r \in scheduleData : TRUE).timezone
           scheduleName == IF scheduleData = {} THEN "Agenda"
                           ELSE (CHOOSE r \in scheduleData : TRUE).title
           service == IF serviceId = NoService THEN {} ELSE ServiceRow(serviceId)
           serviceName == IF service = {} THEN <<"?">> ELSE (CHOOSE r \in service : TRUE).title
           fetched == ops \cup {"fetch scheduleData"}
                          \cup (IF serviceId = NoService THEN {} ELSE {"fetch service"})
           Finish(out) ==
               Done(Enrich(out.result, operation, serviceName, scheduleName, date, time,
                           timezone),
                    cache, out.appts, sets, fetched \cup {operation})
       IN CASE operation = "checkAvailability" ->
                 Finish(Outcome(appts, checkAvailability(fail, appts, scheduleId, date, time,
                                                         serviceId)))
            [] operation = "createAppointment" ->
                 IF date = NoDate \/ serviceId = NoService
                 THEN Done(Error([kind |-> "missing_required_parameters",
                                  missing |-> (IF date = NoDate THEN <<"date">> ELSE <<>>)
                                      \o (IF serviceId = NoService THEN <<"service_id">>
                                          ELSE <<>>)]),
                           cache, appts, sets, fetched)
                 ELSE Finish(createAppointment(fail, appts, scheduleId, session.customer_id, date,
                                               time, serviceId, providerId))
            [] operation = "checkAppointment" ->
                 Finish(checkAppointment(fail, appts, session.customer_id, appointmentId,
                                         scheduleId))
            [] operation = "deleteAppointment" ->
                 IF appointmentId = NoId /\ date = NoDate
                 THEN Done(Error([kind |-> "id_or_date_required_to_cancel"]),
                           cache, appts, sets, fetched)
                 ELSE Finish(deleteAppointment(fail, appts, appointmentId, session.customer_id,
                                               date, scheduleId))
            [] OTHER ->
                 Done(Error([kind |-> "unsupported_operation", operation |-> operation]),
                      cache, appts, sets, fetched)

----------------------------------------------------------------------------
(* handleSystemToolCall: lines 518-832 *)

\* The configured system actions passed to every call.
actionsSystem ==
    << [name |-> "agenda", type |-> "schedule", config |-> [schedule |-> "s1"]],
       [name |-> "agenda2", type |-> "schedule", config |-> [schedule |-> "s2"]],
       [name |-> "semagenda", type |-> "schedule", config |-> [schedule |-> NoSchedule]],
       [name |-> "cliente", type |-> "update_customer", config |-> [schedule |-> NoSchedule]],
       [name |-> "chat", type |-> "update_chat", config |-> [schedule |-> NoSchedule]],
       [name |-> "fluxo", type |-> "start_flow", config |-> [schedule |-> NoSchedule]],
       [name |-> "outro", type |-> "webhook", config |-> [schedule |-> NoSchedule]] >>

\* processUpdateCustomerAction / processUpdateChatAction / processStartFlowAction are
\* supplied by the caller: behaviour says what the supplied function does.
Executor(name, behaviour, action, args, cache, appts, sets, ops) ==
    CASE behaviour = "throws" ->
            Throw("executor failed", cache, appts, sets, ops \cup {name})
      [] behaviour = "missing" ->
            Throw("not a function", cache, appts, sets, ops)
      [] behaviour = "error" ->
            Done([status |-> "error", message |-> [kind |-> "executor_error"],
                  action |-> action], cache, appts, sets, ops \cup {name})
      [] OTHER ->
            Done([status |-> "success", message |-> [kind |-> "executor_done"],
                  action |-> action], cache, appts, sets, ops \cup {name})

\* Mutant: the name is looked up as it was typed.
UseServiceMap_caseSensitive(serviceMap, cache, appts, args, sets, ops) ==
    IF args.service_name = NotAString
    THEN Stop(Throw("toLowerCase is not a function", cache, appts, sets, ops))
    ELSE LET serviceName == args.service_name
         IN IF Lookup(serviceMap, serviceName) # NoValue
            THEN Continue(cache, [args EXCEPT !.service_id = Lookup(serviceMap, serviceName)],
                          sets, ops)
            ELSE Stop(Done(Error([kind |-> "service_not_found", name |-> args.service_name]),
                           cache, appts, sets, ops))

\* lines 607-618
UseServiceMap(serviceMap, cache, appts, args, sets, ops) ==
    IF args.service_name = NotAString
    THEN Stop(Throw("toLowerCase is not a function", cache, appts, sets, ops))
    ELSE LET serviceName == toLowerCase(args.service_name)
         IN IF Lookup(serviceMap, serviceName) # NoValue
            THEN Continue(cache, [args EXCEPT !.service_id = Lookup(serviceMap, serviceName)],
                          sets, ops)
            ELSE Stop(Done(Error([kind |-> "service_not_found", name |-> args.service_name]),
                           cache, appts, sets, ops))

\* Mutant: a miss rebuilds and stores the map but the lookup is made in no map.
ServiceResolution_missFails(cache, time, status, appts, args, session, scheduleId, fail) ==
    IF args.service_name = NoName THEN Continue(cache, args, <<>>, {"fetch schedules"})
    ELSE
    LET organizationId == session.organization_id
        cached == getCachedMap(cache, time, organizationId, "services", scheduleId)
        services == SelectSeq(serviceTable, LAMBDA r : r.schedule_id = scheduleId
                                                       /\ status[r.id] = "active")
        serviceMap == createNameToIdMap(services, "title", "id")
    IN IF cached.found
       THEN UseServiceMap(cached.data, cache, appts, args, <<>>, {"fetch schedules"})
       ELSE UseServiceMap(EmptyMap,
                          setCachedMap(cache, time, organizationId, "services",
                                       serviceMap, scheduleId),
                          appts, args, << <<"services", serviceMap, scheduleId>> >>,
                          {"fetch schedules", "fetch services"})

\* lines 579-619
ServiceResolution(cache, time, status, appts, args, session, scheduleId, fail) ==
    IF args.service_name = NoName THEN Continue(cache, args, <<>>, {"fetch schedules"})
    ELSE
    LET organizationId == session.organization_id
        cached == getCachedMap(cache, time, organizationId, "services", scheduleId)
        ops == {"fetch schedules", "fetch services"}
    IN IF cached.found
       THEN UseServiceMap(cached.data, cache, appts, args, <<>>, {"fetch schedules"})
       ELSE IF Throws(fail, "services")
       THEN Stop(Throw(FetchFailed, cache, appts, <<>>, ops))
       ELSE LET services ==
                    Data(fail, "services",
                         SelectSeq(serviceTable,
                                   LAMBDA r : r.schedule_id = scheduleId
                                              /\ status[r.id] = "active"))
            IN IF services = <<>>
               THEN Stop(Done(Error([kind |-> "no_services_found"]), cache, appts, <<>>, ops))
               ELSE LET serviceMap == createNameToIdMap(services, "title", "id")
                    IN UseServiceMap(serviceMap,
                                     setCachedMap(cache, time, organizationId, "services",
                                                  serviceMap, scheduleId),
                                     appts, args,
                                     << <<"services", serviceMap, scheduleId>> >>, ops)

\* lines 650-661
UseProviderMap(providerMap, cache, appts, args, sets, ops) ==
    IF args.provider_name = NotAString
    THEN Stop(Throw("toLowerCase is not a function", cache, appts, sets, ops))
    ELSE LET providerName == toLowerCase(args.provider_name)
         IN IF Lookup(providerMap, providerName) # NoValue
            THEN Continue(cache,
                          [args EXCEPT !.provider_id = Lookup(providerMap, providerName)],
                          sets, ops)
            ELSE Continue(cache, args, sets, ops)

\* lines 622-662
ProviderResolution(cache, time, appts, args, sets, ops, session, scheduleId, fail) ==
    IF args.provider_name = NoName THEN Continue(cache, args, sets, ops)
    ELSE
    LET organizationId == session.organization_id
        cached == getCachedMap(cache, time, organizationId, "providers", scheduleId)
        fetched == ops \cup {"fetch providers"}
    IN IF cached.found
       THEN UseProviderMap(cached.data, cache, appts, args, sets, ops)
       ELSE IF Throws(fail, "providers")
       THEN Stop(Throw(FetchFailed, cache, appts, sets, fetched))
       ELSE LET providers ==
                    Data(fail, "providers",
                         SelectSeq(providerRows,
                                   LAMBDA r : r.schedule_id = scheduleId
                                              /\ r.status = "active"))
                profiles == [i \in DOMAIN providers |->
                                CHOOSE r \in profileRows : r.id = providers[i].profile_id]
            IN IF providers = <<>>
               THEN Continue(cache, args, sets, fetched)
               ELSE LET providerMap == createNameToIdMap(profiles, "full_name", "id")
                    IN UseProviderMap(providerMap,
                                      setCachedMap(cache, time, organizationId, "providers",
                                                   providerMap, scheduleId),
                                      appts, args,
                                      Append(sets, <<"providers", providerMap, scheduleId>>),
                                      fetched)

\* lines 664-681: the action handed to processCheckScheduleAction
AfterProvider(provider, appts, session, scheduleId, fail) ==
    IF provider.stop THEN provider.out
    ELSE processCheckScheduleAction(
             provider.cache, appts, provider.sets, provider.ops,
             [type |-> provider.args.operation,
              config |-> [scheduleId |-> scheduleId,
                          operation |-> provider.args.operation,
                          date |-> provider.args.date,
                          time |-> provider.args.time,
                          appointmentId |-> NoValue,
                          serviceId |-> NoValue]],
             provider.args, session, fail)

\* lines 621-662, reached when the service step did not return
AfterService(service, time, appts, session, scheduleId, fail) ==
    IF service.stop THEN service.out
    ELSE AfterProvider(ProviderResolution(service.cache, time, appts, service.args,
                                          service.sets, service.ops, session,
                                          scheduleId, fail),
                       appts, session, scheduleId, fail)

\* Mutant: the configured schedule is not looked up before it is used.
ScheduleCase_noValidation(cache, time, status, appts, action, args, session, fail) ==
    IF action.config.schedule = NoSchedule
    THEN Done(Error([kind |-> "schedule_id_required"]), cache, appts, <<>>, {})
    ELSE IF args = NoArgs
    THEN Throw("Cannot read properties of null", cache, appts, <<>>, {"fetch schedules"})
    ELSE AfterService(ServiceResolution(cache, time, status, appts, args, session,
                                        action.config.schedule, fail),
                      time, appts, session, action.config.schedule, fail)

\* case 'schedule': lines 540-682
ScheduleCase(cache, time, status, appts, action, args, session, fail) ==
    IF action.config.schedule = NoSchedule
    THEN Done(Error([kind |-> "schedule_id_required"]), cache, appts, <<>>, {})
    ELSE IF Throws(fail, "schedules")
    THEN Throw(FetchFailed, cache, appts, <<>>, {"fetch schedules"})
    ELSE IF {r \in scheduleRows :
                /\ fail.at # "schedules"
                /\ r.organization_id = session.organization_id
                /\ r.id = action.config.schedule
                /\ status[r.id] = "active"} = {}
    THEN Done(Error([kind |-> "no_active_schedules"]), cache, appts, <<>>,
              {"fetch schedules"})
    ELSE IF args = NoArgs
    THEN Throw("Cannot read properties of null", cache, appts, <<>>, {"fetch schedules"})
    ELSE AfterService(ServiceResolution(cache, time, status, appts, args, session,
                                        action.config.schedule, fail),
                      time, appts, session, action.config.schedule, fail)

\* case 'update_chat': lines 699-753
UpdateChatCase(cache, time, appts, args, session, behaviour, fail) ==
    IF args = NoArgs THEN Throw("Cannot read properties of null", cache, appts, <<>>, {})
    ELSE
    LET organizationId == session.organization_id
        cached == getCachedMap(cache, time, organizationId, "teams", NoKey)
        teams == Data(fail, "teams",
                      SelectSeq(teamRows, LAMBDA r : r.organization_id = organizationId))
        teamMap == IF cached.found THEN cached
                   ELSE IF teams = <<>> THEN NotFound
                   ELSE Found(createNameToIdMap(teams, "name", "id"))
        built == ~cached.found /\ teamMap.found
        cache2 == IF built
                  THEN setCachedMap(cache, time, organizationId, "teams", teamMap.data, NoKey)
                  ELSE cache
        sets == IF built THEN << <<"teams", teamMap.data, NoKey>> >> ELSE <<>>
        ops == IF cached.found THEN {} ELSE {"fetch teams"}
        Run(teamId) ==
            Executor("processUpdateChatAction", behaviour,
                     [type |-> "update_chat", config |-> [teamId |-> teamId]],
                     args, cache2, appts, sets, ops)
    IN IF args.team_name = NoName
       THEN Executor("processUpdateChatAction", behaviour,
                     [type |-> "update_chat", config |-> [teamId |-> NoValue]],
                     args, cache, appts, <<>>, {})
       ELSE IF ~cached.found /\ Throws(fail, "teams")
       THEN Throw(FetchFailed, cache, appts, <<>>, ops)
       ELSE IF ~teamMap.found THEN Run(NoValue)
       ELSE IF args.team_name = NotAString
       THEN Throw("toLowerCase is not a function", cache2, appts, sets, ops)
       ELSE IF Lookup(teamMap.data, toLowerCase(args.team_name)) # NoValue
       THEN Run(Lookup(teamMap.data, toLowerCase(args.team_name)))
       ELSE Done(Error([kind |-> "team_not_found", name |-> args.team_name]),
                 cache2, appts, sets, ops)

\* case 'start_flow': lines 755-815
StartFlowCase(cache, time, appts, args, session, behaviour, fail) ==
    IF args = NoArgs THEN Throw("Cannot read properties of null", cache, appts, <<>>, {})
    ELSE IF args.flow_name = NoName
    THEN Done(Error([kind |-> "flow_name_required"]), cache, appts, <<>>, {})
    ELSE
    LET organizationId == session.organization_id
        cached == getCachedMap(cache, time, organizationId, "flows", NoKey)
        flows == Data(fail, "flows",
                      SelectSeq(flowRows, LAMBDA r : r.organization_id = organizationId
                                                     /\ r.is_active))
        flowMap == IF cached.found THEN cached.data
                   ELSE createNameToIdMap(flows, "name", "id")
        cache2 == IF cached.found THEN cache
                  ELSE setCachedMap(cache, time, organizationId, "flows", flowMap, NoKey)
        sets == IF cached.found THEN <<>> ELSE << <<"flows", flowMap, NoKey>> >>
        ops == IF cached.found THEN {} ELSE {"fetch flows"}
    IN IF ~cached.found /\ Throws(fail, "flows")
       THEN Throw(FetchFailed, cache, appts, <<>>, ops)
       ELSE IF ~cached.found /\ flows = <<>>
       THEN Done(Error([kind |-> "no_active_flows"]), cache, appts, <<>>, ops)
       ELSE IF args.flow_name = NotAString
       THEN Throw("toLowerCase is not a function", cache2, appts, sets, ops)
       ELSE IF Lookup(flowMap, toLowerCase(args.flow_name)) # NoValue
       THEN Executor("processStartFlowAction", behaviour,
                     [type |-> "start_flow",
                      config |-> [flowId |-> Lookup(flowMap, toLowerCase(args.flow_name))]],
                     args, cache2, appts, sets, ops)
       ELSE Done(Error([kind |-> "flow_not_found", name |-> args.flow_name]),
                 cache2, appts, sets, ops)

\* the body of the try block: lines 530-823
Dispatch(cache, time, status, appts, tool, args, session, behaviour, fail) ==
    LET found == SelectSeq(actionsSystem, LAMBDA a : a.name = tool.name)
    IN IF found = <<>>
       THEN Throw("Cannot read properties of undefined", cache, appts, <<>>, {})
       ELSE LET action == Head(found)
            IN CASE action.type = "schedule" ->
                      ScheduleCase(cache, time, status, appts, action, args, session, fail)
                 [] action.type = "update_customer" ->
                      IF args = NoArgs
                      THEN Throw("Cannot read properties of null", cache, appts, <<>>, {})
                      ELSE Executor("processUpdateCustomerAction", behaviour,
                                    [type |-> "update_customer",
                                     config |-> [name |-> NoValue]],
                                    args, cache, appts, <<>>, {})
                 [] action.type = "update_chat" ->
                      UpdateChatCase(cache, time, appts, args, session, behaviour, fail)
                 [] action.type = "start_flow" ->
                      StartFlowCase(cache, time, appts, args, session, behaviour, fail)
                 [] OTHER ->
                      Done(Error([kind |-> "unrecognized_system_tool", tool |-> tool.name]),
                           cache, appts, <<>>, {})

\* Mutant: nothing is caught.
Catch_rethrow(tool, body) == body

\* catch of lines 824-831
Catch(tool, body) ==
    IF body.thrown
    THEN Done(Error([kind |-> "error_processing_system_tool", tool |-> tool.name,
                     error |-> body.error]),
              body.cache, body.appts, body.sets, body.ops)
    ELSE body

handleSystemToolCall(cache, time, status, appts, tool, args, session, behaviour, fail) ==
    Catch(tool, Dispatch(cache, time, status, appts, tool, args, session, behaviour, fail))

----------------------------------------------------------------------------
(* Tool calls as steps *)

BaseArgs ==
    [operation |-> NoValue, date |-> NoDate, time |-> NoTime, appointment_id |-> NoId,
     service_id |-> NoService, provider_id |-> NoProvider, service_name |-> NoName,
     provider_name |-> NoName, team_name |-> NoName, flow_name |-> NoName]

Constructor == CHOOSE k \in InheritedKeys : TRUE

\* Arguments of a schedule tool call: every operation (also none and an unknown
\* one), with and without a date, with no service name, one that matches the
\* service "Co" in another case, and one that matches nothing.
ScheduleArgs ==
    { [BaseArgs EXCEPT !.operation = op, !.date = d, !.time = <<9, 0>>, !.service_name = n] :
        op \in SchedulingOps \cup {NoValue, "bogus"},
        d \in {"d1", NoDate},
        n \in {NoName, <<"C", "O">>, <<"x">>} }
    \cup
    { [BaseArgs EXCEPT !.operation = "createAppointment", !.date = "d1", !.time = <<9, 0>>,
                       !.service_name = <<"C", "O">>, !.provider_name = n] :
        n \in {<<"B", "O">>, <<"z">>, NotAString, Constructor} }
    \cup
    { [BaseArgs EXCEPT !.operation = "createAppointment", !.date = "d1", !.time = <<9, 0>>,
                       !.service_name = n] : n \in {Constructor, NotAString, <<"B", "A">>} }
    \cup
    { [BaseArgs EXCEPT !.operation = "createAppointment", !.date = "d1", !.time = <<9, 0>>,
                       !.service_id = "sv1"],
      [BaseArgs EXCEPT !.operation = "deleteAppointment", !.appointment_id = 1],
      [BaseArgs EXCEPT !.operation = "checkAppointment", !.appointment_id = 1] }

BookArgs ==
    [BaseArgs EXCEPT !.operation = "createAppointment", !.date = "d1", !.time = <<9, 0>>,
                     !.service_name = <<"C", "O">>, !.provider_name = <<"B", "O">>]

ScheduleFails ==
    { [at |-> t, mode |-> m] : t \in {"schedules", "services", "providers", "scheduleData"},
                               m \in {"error", "throws"} }

Behaviours == {"success", "error", "throws", "missing"}

Session(organizationId) == [organization_id |-> organizationId, customer_id |-> "c1"]

Call(name, args, organizationId, behaviour, fail) ==
    [tool |-> [name |-> name], args |-> args, session |-> Session(organizationId),
     behaviour |-> behaviour, fail |-> fail]

\* Arguments that reach each appointment operation without name resolution, and
\* the queries of each operation that may fail.
OperationArgs(operation) ==
    CASE operation = "checkAvailability" ->
            {[BaseArgs EXCEPT !.operation = operation, !.date = "d1", !.service_id = "sv1"]}
      [] operation = "createAppointment" ->
            {[BaseArgs EXCEPT !.operation = operation, !.date = "d1", !.time = <<9, 0>>,
                              !.service_id = "sv1"]}
      [] operation = "checkAppointment" ->
            {[BaseArgs EXCEPT !.operation = operation]}
      [] OTHER ->
            {[BaseArgs EXCEPT !.operation = operation, !.appointment_id = 1],
             [BaseArgs EXCEPT !.operation = operation, !.date = "d1"]}

QueriesOf(operation) ==
    CASE operation = "checkAvailability" ->
            {"schedule", "slotProviders", "availability", "existing"}
      [] operation = "createAppointment" ->
            {"schedule", "slotProviders", "availability", "existing", "insert"}
      [] operation = "checkAppointment" -> {"select"}
      [] OTHER -> {"select", "update"}

OperationCalls ==
    UNION { { Call("agenda", a, "o1", "success", [at |-> q, mode |-> m]) :
                a \in OperationArgs(op), q \in QueriesOf(op), m \in {"error", "throws"} } :
            op \in SchedulingOps }

Calls ==
    { Call("agenda", a, "o1", "success", NoFail) : a \in ScheduleArgs \cup {NoArgs} }
    \cup { Call("agenda", BookArgs, "o1", "success", f) : f \in ScheduleFails }
    \cup { Call("agenda2", [BaseArgs EXCEPT !.operation = "checkAvailability", !.date = "d1",
                                           !.service_name = n], "o2", "success", NoFail) :
             n \in {NoName, <<"C", "O">>} }
    \cup { Call(t, BookArgs, o, "success", NoFail) :
             t \in {"agenda", "semagenda", "outro", "inexistente"}, o \in Orgs }
    \cup { Call("chat", [BaseArgs EXCEPT !.team_name = n], o, "success", NoFail) :
             n \in {NoName, <<"S", "U">>, <<"x">>, NotAString, Constructor}, o \in Orgs }
    \cup { Call("fluxo", [BaseArgs EXCEPT !.flow_name = n], o, "success", NoFail) :
             n \in {NoName, <<"O", "N">>, <<"O", "F">>, NotAString, Constructor}, o \in Orgs }
    \cup { Call(t, [BaseArgs EXCEPT !.team_name = <<"S", "U">>, !.flow_name = <<"O", "N">>],
                "o1", b, NoFail) :
             t \in {"cliente", "chat", "fluxo"}, b \in Behaviours }
    \cup { Call(t, [BaseArgs EXCEPT !.team_name = <<"S", "U">>, !.flow_name = <<"O", "N">>],
                "o1", "success", [at |-> f, mode |-> m]) :
             t \in {"chat", "fluxo"}, f \in {"teams", "flows"}, m \in {"error", "throws"} }
    \cup { Call(t, NoArgs, "o1", "success", NoFail) : t \in {"cliente", "chat", "fluxo"} }
    \cup OperationCalls

\* column status of the service and schedule rows, by row id
sourceStatus == serviceStatus @@ scheduleStatus

RECURSIVE RecordSets(_, _, _, _)
RecordSets(h, time, organizationId, sets) ==
    IF sets = <<>> THEN h
    ELSE RecordSets(RecordSet(h, time, organizationId, Head(sets)[1], Head(sets)[2],
                              Head(sets)[3]),
                    time, organizationId, Tail(sets))

HandleSystemToolCall(call) ==
    /\ cacheOps > 0
    /\ \E out \in {handleSystemToolCall(nameToIdCache, now, sourceStatus, appointments,
                                        call.tool, call.args, call.session,
                                        call.behaviour, call.fail)} :
          /\ Len(out.appts) <= MaxAppts
          /\ nameToIdCache' = out.cache
          /\ appointments' = out.appts
          /\ lastSet' = RecordSets(lastSet, now, call.session.organization_id, out.sets)
          /\ lastCall' = [op |-> "handleSystemToolCall", call |-> call,
                          thrown |-> out.thrown,
                          result |-> IF out.thrown
                                     THEN [status |-> "thrown", message |-> out.error]
                                     ELSE out.result,
                          ops |-> out.ops]
    /\ cacheOps' = cacheOps - 1
    /\ UNCHANGED <<now, serviceStatus, scheduleStatus, inFlight>>

\* A service row is deactivated in the source of truth, by another part of the system.
DeactivateService(id) ==
    /\ serviceStatus[id] = "active"
    /\ serviceStatus' = [serviceStatus EXCEPT ![id] = "inactive"]
    /\ lastCall' = [op |-> "deactivateService"]
    /\ UNCHANGED <<cacheVars, now, appointments, scheduleStatus, inFlight>>

\* A service row is activated again in the source of truth.
ActivateService(id) ==
    /\ serviceStatus[id] = "inactive"
    /\ serviceStatus' = [serviceStatus EXCEPT ![id] = "active"]
    /\ lastCall' = [op |-> "activateService"]
    /\ UNCHANGED <<cacheVars, now, appointments, scheduleStatus, inFlight>>

\* A schedule row is deactivated in the source of truth.
DeactivateSchedule(id) ==
    /\ scheduleStatus[id] = "active"
    /\ scheduleStatus' = [scheduleStatus EXCEPT ![id] = "inactive"]
    /\ lastCall' = [op |-> "deactivateSchedule"]
    /\ UNCHANGED <<cacheVars, now, appointments, serviceStatus, inFlight>>

MaxCalls == 2

Init == InitCommon /\ cacheOps = MaxCalls

Next ==
    \/ \E call \in Calls : HandleSystemToolCall(call)
    \/ \E id \in ServiceIds : DeactivateService(id)
    \/ ActivateService("sv1")
    \/ DeactivateSchedule("s1")
    \/ \E o \in Orgs : ClearOrganizationCache(o)
    \/ Tick

Spec == Init /\ [][Next]_vars

----------------------------------------------------------------------------
(* Cancellations asked through the tool of schedule s1, on a table that holds *)
(* appointments of either schedule.                                           *)

MaxToolDeletes == 1

DeleteCalls ==
    { Call("agenda", [BaseArgs EXCEPT !.operation = "deleteAppointment",
                                      !.appointment_id = id, !.date = d],
           "o1", "success", NoFail) :
        id \in {NoId} \cup (1 .. MaxRows), d \in {NoDate} \cup Dates }

InitToolTable ==
    /\ nameToIdCache = EmptyCache
    /\ now = 1
    /\ lastSet = [key \in CacheKeys |-> NoSet]
    /\ cacheOps = MaxToolDeletes
    /\ lastCall = NoCall
    /\ serviceStatus = [id \in {"sv1", "sv2"} |-> "active"]
    /\ scheduleStatus = [id \in {"s1", "s2"} |-> "active"]
    /\ inFlight = <<>>
    /\ appointments \in Tables

NextToolTable == \E call \in DeleteCalls : HandleSystemToolCall(call)

SpecToolTable == InitToolTable /\ [][NextToolTable]_vars

----------------------------------------------------------------------------
(* Tool calls that overlap in time: the service read-through of lines        *)
(* 581-602, suspended at the await of line 584.  The store evaluates the     *)
(* query at one moment and the call resumes with the answer at a later one.  *)

MaxLookups == 3

\* lines 581-583: the call reads the cache and either goes on with the cached map
\* or sends the query
StartServiceLookup(organizationId, scheduleId) ==
    /\ Len(inFlight) < MaxLookups
    /\ LET cached == getCachedMap(nameToIdCache, now, organizationId, "services",
                                  scheduleId)
           started == [op |-> "handleSystemToolCall", organizationId |-> organizationId,
                       scheduleId |-> scheduleId,
                       sawSet |-> lastSet[<<organizationId, "services", scheduleId>>]]
       IN inFlight' = Append(inFlight,
              IF cached.found
              THEN started @@ [at |-> "resolved", from |-> "cache",
                               serviceMap |-> cached.data]
              ELSE started @@ [at |-> "query", from |-> "source"])
    /\ lastCall' = [op |-> "getCachedMap", call |-> Len(inFlight) + 1]
    /\ UNCHANGED <<cacheVars, now, appointments, serviceStatus, scheduleStatus>>

\* lines 584-588: the store evaluates the query on the rows as they are now; order
\* counts the queries evaluated so far
ServicesQueryRuns(i) ==
    /\ i \in DOMAIN inFlight
    /\ inFlight[i].at = "query"
    /\ inFlight' = [inFlight EXCEPT ![i] =
           [op |-> "handleSystemToolCall", organizationId |-> inFlight[i].organizationId,
            scheduleId |-> inFlight[i].scheduleId, sawSet |-> inFlight[i].sawSet,
            at |-> "answer", from |-> "source",
            order |-> Cardinality({j \in DOMAIN inFlight : "order" \in DOMAIN inFlight[j]}) + 1,
            services |-> SelectSeq(serviceTable,
                                   LAMBDA r : /\ r.schedule_id = inFlight[i].scheduleId
                                              /\ sourceStatus[r.id] = "active")]]
    /\ lastCall' = [op |-> "query", call |-> i]
    /\ UNCHANGED <<cacheVars, now, appointments, serviceStatus, scheduleStatus>>

\* lines 590-602: the call resumes with the rows; an empty list is an error and is
\* not stored, any other is turned into a map and stored
ServicesAnswerArrives(i) ==
    /\ i \in DOMAIN inFlight
    /\ inFlight[i].at = "answer"
    /\ LET c == inFlight[i]
           serviceMap == createNameToIdMap(c.services, "title", "id")
           resolved == [op |-> "handleSystemToolCall", organizationId |-> c.organizationId,
                        scheduleId |-> c.scheduleId, sawSet |-> c.sawSet,
                        at |-> "resolved", from |-> "source", order |-> c.order,
                        services |-> c.services]
       IN IF c.services = <<>>
          THEN /\ inFlight' = [inFlight EXCEPT ![i] = resolved]
               /\ UNCHANGED <<nameToIdCache, lastSet>>
          ELSE /\ inFlight' = [inFlight EXCEPT ![i] =
                                  resolved @@ [serviceMap |-> serviceMap]]
               /\ nameToIdCache' = setCachedMap(nameToIdCache, now, c.organizationId,
                                                "services", serviceMap, c.scheduleId)
               /\ lastSet' = RecordSet(lastSet, now, c.organizationId, "services",
                                       serviceMap, c.scheduleId)
    /\ lastCall' = [op |-> "answer", call |-> i]
    /\ UNCHANGED <<cacheOps, now, appointments, serviceStatus, scheduleStatus>>

InitLookups == InitCommon /\ cacheOps = 0

NextLookups ==
    \/ \E o \in Orgs : StartServiceLookup(o, IF o = "o1" THEN "s1" ELSE "s2")
    \/ \E i \in 1 .. MaxLookups : ServicesQueryRuns(i)
    \/ \E i \in 1 .. MaxLookups : ServicesAnswerArrives(i)
    \/ \E id \in ServiceIds : DeactivateService(id)
    \/ \E id \in ServiceIds : ActivateService(id)
    \/ Tick

SpecLookups == InitLookups /\ [][NextLookups]_vars

----------------------------------------------------------------------------
(* generateSystemTools: lines 154-195, and the generators of lines 203-450 *)

NoAction == [null |-> TRUE]       \* a null element of systemActions
NoConfig == [null |-> TRUE]       \* action.config undefined
NoTool == [null |-> TRUE]         \* a generator returned null

\* A generator returned: a tool or null; or it raised.
Generated(tool) == [thrown |-> FALSE, tool |-> tool]
Raised == [thrown |-> TRUE]

\* value || default
Or(value, default) == IF value = NoName THEN default ELSE value

\* lines 203-314.  A tool is its name, the names of its properties, the values its
\* properties are restricted to, and its required properties.
generateScheduleTool(organizationId, action, status, fail) ==
    IF action.config = NoConfig THEN Raised            \* line 204, outside the try
    ELSE IF action.config.schedule = NoSchedule THEN Generated(NoTool)
    ELSE IF fail.at = "schedules" THEN Generated(NoTool)
    ELSE
    LET schedules == {r \in scheduleRows :
                         /\ r.organization_id = organizationId
                         /\ r.id = action.config.schedule
                         /\ status[r.id] = "active"}
        scheduleId == action.config.schedule
        services == {r \in serviceRows : r.schedule_id = scheduleId
                                         /\ status[r.id] = "active"}
        providers == {providerRows[i] : i \in {j \in DOMAIN providerRows :
                         /\ providerRows[j].schedule_id = scheduleId
                         /\ providerRows[j].status = "active"}}
        names == {r.full_name : r \in {x \in profileRows :
                                          \E q \in providers : q.profile_id = x.id}}
    IN IF schedules = {} THEN Generated(NoTool)
       ELSE IF fail.at \in {"services", "providers"} THEN Generated(NoTool)
       ELSE Generated(
              [name |-> transformToolName(Or(action.name,
                                             <<"s", "c", "h", "e", "d", "u", "l", "e", "_",
                                               "a", "p", "p", "o", "i", "n", "t", "m", "e",
                                               "n", "t">>)),
               properties |-> {"operation", "date", "time", "notes", "appointment_id"}
                                  \cup (IF services # {} THEN {"service_name"} ELSE {})
                                  \cup (IF names # {} THEN {"provider_name"} ELSE {}),
               enum |-> {<<"service_name", r.title>> : r \in services}
                            \cup {<<"provider_name", n>> : n \in names},
               required |-> {"operation"}])

\* lines 321-359
generateUpdateCustomerTool(action) ==
    Generated([name |-> transformToolName(Or(action.title,
                                             <<"u", "p", "d", "a", "t", "e", "_", "c", "u",
                                               "s", "t", "o", "m", "e", "r">>)),
               properties |-> {"name", "email", "phone", "funnel_stage", "tags"},
               enum |-> {},
               required |-> {}])

\* lines 366-394
generateUpdateChatTool(action) ==
    Generated([name |-> transformToolName(Or(action.name,
                                             <<"u", "p", "d", "a", "t", "e", "_", "c", "h",
                                               "a", "t">>)),
               properties |-> {"title", "status", "team_name"},
               enum |-> {},
               required |-> {}])

\* lines 402-450
generateStartFlowTool(organizationId, action, fail) ==
    LET flows == {flowRows[i] : i \in {j \in DOMAIN flowRows :
                     /\ flowRows[j].organization_id = organizationId
                     /\ flowRows[j].is_active}}
    IN IF fail.at = "flows" \/ flows = {} THEN Generated(NoTool)
       ELSE Generated(
              [name |-> transformToolName(Or(action.name,
                                             <<"s", "t", "a", "r", "t", "_", "f", "l", "o",
                                               "w">>)),
               properties |-> {"flow_name", "variables"},
               enum |-> {<<"flow_name", r.name>> : r \in flows},
               required |-> {"flow_name"}])

\* the body of the for loop, lines 161-182, for one action
GenerateOne(organizationId, action, status, fail) ==
    IF action = NoAction \/ action.type = NoValue THEN Generated(NoTool)
    ELSE CASE action.type = "schedule" ->
                 generateScheduleTool(organizationId, action, status, fail)
           [] action.type = "update_customer" -> generateUpdateCustomerTool(action)
           [] action.type = "update_chat" -> generateUpdateChatTool(action)
           [] action.type = "start_flow" ->
                 generateStartFlowTool(organizationId, action, fail)
           [] OTHER -> Generated(NoTool)

\* the for loop of lines 160-187, tools being the list built so far
RECURSIVE GenerateLoop(_, _, _, _, _)
GenerateLoop(tools, organizationId, systemActions, status, fail) ==
    IF systemActions = <<>> THEN Generated(tools)
    ELSE LET one == GenerateOne(organizationId, Head(systemActions), status, fail)
         IN IF one.thrown THEN Raised
            ELSE GenerateLoop(IF one.tool = NoTool THEN tools ELSE Append(tools, one.tool),
                              organizationId, Tail(systemActions), status, fail)

generateSystemTools(organizationId, systemActions, status, fail) ==
    LET loop == GenerateLoop(<<>>, organizationId, systemActions, status, fail)
    IN IF loop.thrown THEN <<>> ELSE loop.tool      \* the catch of lines 190-194

MaxActions == 2

\* Configured actions: of each type, of an unknown type and of none, with and
\* without a name and a title, with no configuration, with no schedule in it, and
\* with the schedule of either organization.
Actions ==
    { [type |-> "schedule", name |-> n, title |-> NoName, config |-> c] :
        n \in {NoName, <<"A", " ", "b">>},
        c \in {NoConfig, [schedule |-> NoSchedule], [schedule |-> "s1"],
               [schedule |-> "s2"]} }
    \cup { [type |-> "update_customer", name |-> n, title |-> t, config |-> NoConfig] :
             n \in {NoName, <<"C", "!">>}, t \in {NoName, <<"C", "!">>, <<"T", "-", "i">>} }
    \cup { [type |-> t, name |-> n, config |-> NoConfig, title |-> NoName] :
             t \in {"update_chat", "start_flow"}, n \in {NoName, <<"_", "D", "e">>} }
    \cup { [type |-> t, name |-> <<"x">>, config |-> NoConfig, title |-> NoName] :
             t \in {"webhook", NoValue} }
    \cup { NoAction }

ActionLists == UNION { [1 .. n -> Actions] : n \in 0 .. MaxActions }

SourceFails ==
    {NoFail} \cup { [at |-> t, mode |-> m] :
                      t \in {"schedules", "services", "providers", "flows"},
                      m \in {"error", "throws"} }

GenerateSystemTools(organizationId, systemActions, fail) ==
    /\ cacheOps > 0
    /\ cacheOps' = cacheOps - 1
    /\ lastCall' = [op |-> "generateSystemTools", organizationId |-> organizationId,
                    systemActions |-> systemActions, fail |-> fail,
                    tools |-> generateSystemTools(organizationId, systemActions,
                                                  sourceStatus, fail)]
    /\ UNCHANGED <<nameToIdCache, lastSet, now, appointments, serviceStatus,
                   scheduleStatus, inFlight>>

MaxToolCalls == 1

InitTools == InitCommon /\ cacheOps = MaxToolCalls

NextTools ==
    \/ \E o \in Orgs, actions \in ActionLists, fail \in SourceFails :
          GenerateSystemTools(o, actions, fail)
    \/ DeactivateSchedule("s1")
    \/ \E id \in ServiceIds : DeactivateService(id)

SpecTools == InitTools /\ [][NextTools]_vars

----------------------------------------------------------------------------
(* From the catalog to the dispatcher: a tool that generateSystemTools emitted *)
(* is called back by its name with the same list of actions.                   *)

\* actionsSystem.find(action => action.name === tool.name): line 533
find(systemActions, name) ==
    LET found == SelectSeq(systemActions, LAMBDA a : a # NoAction /\ a.name = name)
    IN IF found = <<>> THEN NoAction ELSE Head(found)

\* Actions whose names are slugs already.
SlugNamed ==
    { [type |-> "schedule", name |-> <<"a", "b">>, title |-> NoName,
       config |-> [schedule |-> "s1"]],
      [type |-> "update_chat", name |-> <<"a", "b">>, title |-> NoName, config |-> NoConfig],
      [type |-> "update_chat", name |-> <<"d", "e">>, title |-> NoName, config |-> NoConfig],
      [type |-> "update_customer", name |-> <<"c">>, title |-> <<"c">>, config |-> NoConfig],
      [type |-> "start_flow", name |-> <<"f", "_", "1">>, title |-> NoName,
       config |-> NoConfig] }

MaxSelects == 1

\* The tool emitted for the action at position source is called: the try block of
\* handleSystemToolCall selects the action (line 533) and reads action.type and
\* action.config, which raises when none was selected (lines 535-538).
SelectAction(organizationId, systemActions, source) ==
    /\ cacheOps > 0
    /\ cacheOps' = cacheOps - 1
    /\ source \in DOMAIN systemActions
    /\ generateSystemTools(organizationId, systemActions, sourceStatus, NoFail) # <<>>
    /\ \E one \in {GenerateOne(organizationId, systemActions[source], sourceStatus, NoFail)} :
          /\ ~one.thrown
          /\ one.tool # NoTool
          /\ lastCall' = [op |-> "selectAction", organizationId |-> organizationId,
                          systemActions |-> systemActions, source |-> source,
                          tool |-> one.tool.name,
                          selected |-> find(systemActions, one.tool.name),
                          raised |-> find(systemActions, one.tool.name) = NoAction]
    /\ UNCHANGED <<nameToIdCache, lastSet, now, appointments, serviceStatus,
                   scheduleStatus, inFlight>>

InitSelect == InitCommon /\ cacheOps = MaxSelects

NextSelect ==
    \E o \in Orgs, n \in 1 .. MaxActions :
        \E actions \in [1 .. n -> Actions \cup SlugNamed], source \in 1 .. n :
            SelectAction(o, actions, source)

SpecSelect == InitSelect /\ [][NextSelect]_vars

----------------------------------------------------------------------------
(* Claims about availability and booking *)

\* Two rows hold the same provider on the same schedule and date, neither canceled.
SameProviderDay(a, b) ==
    /\ a.status # "canceled" /\ b.status # "canceled"
    /\ a.provider_id = b.provider_id
    /\ a.schedule_id = b.schedule_id
    /\ a.date = b.date

\* [start_time, end_time) of two rows intersect
Overlap(a, b) ==
    /\ timeToMinutes(a.start_time) < timeToMinutes(b.end_time)
    /\ timeToMinutes(b.start_time) < timeToMinutes(a.end_time)

\* C1: after any run-to-completion sequence of createAppointment and deleteAppointment,
\* no two non-canceled appointments of one provider, schedule and date overlap.
C1_NoOverlap ==
    \A i \in DOMAIN appointments, j \in DOMAIN appointments :
        (i # j /\ SameProviderDay(appointments[i], appointments[j]))
            => ~Overlap(appointments[i], appointments[j])

\* The slot list getAvailableSlots computes for a request, in the given table.
SlotsAt(appts, scheduleId, date, serviceId) ==
    getAvailableSlots(NoFail, appts, scheduleId, date, ServiceDuration(serviceId))

Rejected(slots) ==
    [success |-> FALSE,
     message |-> [kind |-> "slot_not_available", available_times |-> slots]]

\* C2: a createAppointment whose requested time is not in the slot list computed at
\* that moment returns success = false with the list of available times, and the
\* appointments table is unchanged.
C2_RejectsClosedSlot ==
    [][ lastCall'.op = "createAppointment" =>
          LET s == lastCall'.args[1]
              d == lastCall'.args[2]
              t == lastCall'.args[3]
              sv == lastCall'.args[4]
              slots == SlotsAt(appointments, s, d, sv)
          IN ~Includes(slots, t)
             => /\ \A c \in Customers, p \in Profiles \cup {NoProvider} :
                      createAppointment(NoFail, appointments, s, c, d, t, sv, p)
                          = Outcome(appointments, Rejected(slots))
                /\ ~lastCall'.success
                /\ lastCall'.message = "slot_not_available"
                /\ appointments' = appointments
      ]_vars

\* A booking was refused while the date still had an open slot and a booked one.
C2_Witness ==
    /\ lastCall.op = "createAppointment" /\ ~lastCall.success
    /\ lastCall.message = "slot_not_available"
    /\ lastCall.args[3] \in Times
    /\ SlotsAt(appointments, lastCall.args[1], lastCall.args[2], lastCall.args[4]) # <<>>
    /\ ~Includes(SlotsAt(appointments, lastCall.args[1], lastCall.args[2], lastCall.args[4]),
                 lastCall.args[3])
    /\ \E i \in DOMAIN appointments : appointments[i].status = "scheduled"

\* The scenario of C3 on schedule s1, Monday d1, the 30-minute service sv1.
C3_Scenario ==
    /\ (\A i \in DOMAIN appointments :
           appointments[i].schedule_id = "s1" /\ appointments[i].date = "d1"
               => appointments[i].status = "canceled")
       => checkAvailability(NoFail, appointments, "s1", "d1", NoTime, "sv1").available_times
              = << <<9, 0>>, <<9, 30>> >>
    /\ \A i \in DOMAIN appointments :
          ( /\ appointments[i].schedule_id = "s1" /\ appointments[i].date = "d1"
            /\ appointments[i].service_id = "sv1" /\ appointments[i].start_time = <<9, 0>>
            /\ appointments[i].status = "scheduled"
            /\ \A j \in DOMAIN appointments : j # i => appointments[j].status = "canceled" )
          => /\ appointments[i].end_time = <<9, 30>>
             /\ \A c \in Customers, p \in Profiles \cup {NoProvider} :
                   createAppointment(NoFail, appointments, "s1", c, "d1", <<9, 0>>, "sv1", p).result
                       = Rejected(<< <<9, 30>> >>)

\* C3: right after a createAppointment that succeeded for time t, a createAppointment
\* for the same schedule, date, service and time is refused and lists exactly the
\* slots still open, t not among them; and the scenario above.
C3_SecondBookingFails ==
    /\ []C3_Scenario
    /\ [][ (lastCall'.op = "createAppointment" /\ lastCall'.success) =>
             LET s == lastCall'.args[1]
                 d == lastCall'.args[2]
                 t == lastCall'.args[3]
                 sv == lastCall'.args[4]
                 open == SlotsAt(appointments', s, d, sv)
             IN /\ ~Includes(open, t)
                /\ \A x \in Times : (x # t /\ Includes(SlotsAt(appointments, s, d, sv), x)
                                        /\ timeToMinutes(x) >= timeToMinutes(t)
                                               + ServiceDuration(sv))
                                     => Includes(open, x)
                /\ \A c \in Customers, p \in Profiles \cup {NoProvider} :
                      createAppointment(NoFail, appointments', s, c, d, t, sv, p).result
                          = Rejected(open)
         ]_vars

\* The second booking of 09:00 was attempted after the first succeeded, and refused.
C3_Witness ==
    /\ lastCall.op = "createAppointment" /\ ~lastCall.success
    /\ lastCall.args = <<"s1", "d1", <<9, 0>>, "sv1">>
    /\ Len(appointments) = 1
    /\ appointments[1].status = "scheduled"
    /\ appointments[1].start_time = <<9, 0>> /\ appointments[1].service_id = "sv1"
    /\ appointments[1].schedule_id = "s1" /\ appointments[1].date = "d1"
    /\ SlotsAt(appointments, "s1", "d1", "sv1") = << <<9, 30>> >>

Durations == {ParseDuration(r.duration) : r \in serviceRows} \cup {defaultDuration}

\* C4: no slot returned by getAvailableSlots lies in [start, end) of a non-canceled
\* appointment of that schedule and date; with no active provider, or no window on
\* that weekday, the list is empty.
C4_SlotsAreFree ==
    \A s \in Schedules, d \in Dates, dur \in Durations :
        LET slots == getAvailableSlots(NoFail, appointments, s, d, dur) IN
        /\ \A k \in DOMAIN slots, i \in DOMAIN appointments :
              ( /\ appointments[i].schedule_id = s /\ appointments[i].date = d
                /\ appointments[i].status # "canceled" )
              => ~( /\ timeToMinutes(appointments[i].start_time) <= timeToMinutes(slots[k])
                    /\ timeToMinutes(slots[k]) < timeToMinutes(appointments[i].end_time) )
        /\ ( \/ ~\E j \in DOMAIN providerRows :
                    providerRows[j].schedule_id = s /\ providerRows[j].status = "active"
             \/ ~\E a \in availabilityRows, j \in DOMAIN providerRows :
                    /\ providerRows[j].schedule_id = s /\ providerRows[j].status = "active"
                    /\ a.provider_id = providerRows[j].id /\ a.day_of_week = dayOfWeek(d) )
           => slots = <<>>

\* An availability query on a date that has a booked slot and an open one.
C4_Witness ==
    /\ lastCall.op = "checkAvailability" /\ lastCall.success
    /\ \E i \in DOMAIN appointments :
          /\ appointments[i].status = "scheduled"
          /\ getAvailableSlots(NoFail, appointments, appointments[i].schedule_id,
                               appointments[i].date, defaultDuration) # <<>>
    /\ getAvailableSlots(NoFail, appointments, "s2", "d1", defaultDuration) = <<>>
    /\ getAvailableSlots(NoFail, appointments, "s1", "d2", defaultDuration) = <<>>

----------------------------------------------------------------------------
(* Claims about the dispatcher *)

\* The map the dispatcher builds for a partition from the source of truth.
SourceMap(status, organizationId, type, subKey) ==
    CASE type = "services" ->
            createNameToIdMap(SelectSeq(serviceTable,
                                        LAMBDA r : r.schedule_id = subKey
                                                   /\ status[r.id] = "active"),
                              "title", "id")
      [] type = "providers" ->
            LET providers == SelectSeq(providerRows, LAMBDA r : r.schedule_id = subKey
                                                                /\ r.status = "active")
            IN createNameToIdMap([i \in DOMAIN providers |->
                                     CHOOSE r \in profileRows :
                                         r.id = providers[i].profile_id],
                                 "full_name", "id")
      [] type = "teams" ->
            createNameToIdMap(SelectSeq(teamRows,
                                        LAMBDA r : r.organization_id = organizationId),
                              "name", "id")
      [] OTHER ->
            createNameToIdMap(SelectSeq(flowRows,
                                        LAMBDA r : r.organization_id = organizationId
                                                   /\ r.is_active),
                              "name", "id")

\* Every partition is absent, expired, or holds the map built from the source as it is.
Coherent(cache, time, status) ==
    \A key \in CacheKeys :
        LET cached == getCachedMap(cache, time, key[1], key[2], key[3])
        IN cached.found => cached.data = SourceMap(status, key[1], key[2], key[3])

\* C8: with the storage answering, a tool call made while every cache partition is
\* absent, expired, or a valid map built from the current source returns what the
\* same call returns on an empty cache, and leaves the same appointments.
C8_CacheIsTransparent ==
    [][ ( /\ lastCall'.op = "handleSystemToolCall"
          /\ lastCall'.call.fail = NoFail
          /\ Coherent(nameToIdCache, now, serviceStatus) )
        => LET call == lastCall'.call
               cold == handleSystemToolCall(EmptyCache, now, sourceStatus, appointments,
                                            call.tool, call.args, call.session,
                                            call.behaviour, call.fail)
           IN /\ lastCall'.thrown = cold.thrown
              /\ ~cold.thrown => lastCall'.result = cold.result
              /\ appointments' = cold.appts
      ]_vars

\* A booking by service name was resolved from a valid cached map and succeeded.
C8_Witness ==
    /\ lastCall.op = "handleSystemToolCall"
    /\ lastCall.call.fail = NoFail
    /\ lastCall.call.args # NoArgs
    /\ lastCall.call.args.service_name = <<"C", "O">>
    /\ lastCall.call.args.operation = "createAppointment"
    /\ lastCall.result.status = "success"
    /\ "fetch services" \notin lastCall.ops
    /\ Coherent(nameToIdCache, now, serviceStatus)
    /\ getCachedMap(nameToIdCache, now, "o1", "services", "s1").found

ToolNames == {actionsSystem[i].name : i \in DOMAIN actionsSystem}

ExecutorTools == {"cliente", "chat", "fluxo"}

FetchOf(table) ==
    CASE table = "schedules" -> "fetch schedules" [] table = "services" -> "fetch services"
      [] table = "providers" -> "fetch providers" [] table = "teams" -> "fetch teams"
      [] table = "flows" -> "fetch flows" [] table = "scheduleData" -> "fetch scheduleData"
      [] OTHER -> "none"

\* The queries made inside the appointment operations that run whatever the table
\* holds.
QueriesInOperations == {"schedule", "slotProviders", "availability", "existing", "select"}

\* C9: a tool call never raises: it returns an object with a status and a message;
\* a tool name that matches no action, a null argument object that is read, an
\* executor that throws or is missing, and a storage query that throws each give
\* status "error" with a message carrying the exception's message.
C9_NeverThrows ==
    lastCall.op = "handleSystemToolCall" =>
        LET call == lastCall.call
            result == lastCall.result
        IN /\ ~lastCall.thrown
           /\ result.status \in {"success", "error"}
           /\ "message" \in DOMAIN result
           /\ call.tool.name \notin ToolNames
                => /\ result.status = "error"
                   /\ result.message = [kind |-> "error_processing_system_tool",
                                        tool |-> call.tool.name,
                                        error |-> "Cannot read properties of undefined"]
           /\ call.args = NoArgs => result.status = "error"
           /\ ( /\ call.args = NoArgs
                /\ \/ call.tool.name \in ExecutorTools
                   \/ call.tool.name = "agenda" /\ scheduleStatus["s1"] = "active" )
                => result.message = [kind |-> "error_processing_system_tool",
                                     tool |-> call.tool.name,
                                     error |-> "Cannot read properties of null"]
           /\ (call.behaviour \in {"throws", "missing"} /\ call.tool.name \in ExecutorTools)
                => /\ result.status = "error"
                   /\ result.message = [kind |-> "error_processing_system_tool",
                                        tool |-> call.tool.name,
                                        error |-> IF call.behaviour = "throws"
                                                  THEN "executor failed"
                                                  ELSE "not a function"]
           /\ (call.fail.mode = "throws" /\ FetchOf(call.fail.at) \in lastCall.ops)
                => /\ result.status = "error"
                   /\ result.message.error = FetchFailed
           /\ ( /\ call.fail.mode = "throws"
                /\ call \in OperationCalls
                /\ call.fail.at \in QueriesInOperations
                /\ scheduleStatus["s1"] = "active" )
                => result.status = "error"

\* A call named a tool that matches no configured action.
C9_Witness ==
    /\ lastCall.op = "handleSystemToolCall"
    /\ lastCall.call.tool.name \notin ToolNames
    /\ lastCall.result.status = "error"
    /\ ~lastCall.thrown

\* The schedule a schedule tool call works on, when it is configured and active.
ScheduleOf(call) ==
    { r.id : r \in { x \in scheduleRows :
                        /\ x.organization_id = call.session.organization_id
                        /\ scheduleStatus[x.id] = "active"
                        /\ \E i \in DOMAIN actionsSystem :
                              /\ actionsSystem[i].name = call.tool.name
                              /\ actionsSystem[i].type = "schedule"
                              /\ actionsSystem[i].config.schedule = x.id } }

MatchesActiveService(status, scheduleId, name) ==
    \E r \in serviceRows :
        /\ r.schedule_id = scheduleId /\ status[r.id] = "active"
        /\ toLowerCase(r.title) = toLowerCase(name)

\* C10: a schedule tool call whose service_name is present and matches no active
\* service of the configured schedule returns status "error" with a message that
\* contains the given name, and no scheduling operation is executed.
C10_UnknownServiceIsNamed ==
    ( /\ lastCall.op = "handleSystemToolCall"
      /\ lastCall.call.fail = NoFail
      /\ lastCall.call.args # NoArgs )
    => LET call == lastCall.call
       IN \A scheduleId \in ScheduleOf(call) :
             ( /\ call.args.service_name \notin {NoName, NotAString}
               /\ ~MatchesActiveService(serviceStatus, scheduleId, call.args.service_name) )
             => /\ lastCall.result.status = "error"
                /\ "name" \in DOMAIN lastCall.result.message
                /\ lastCall.result.message.name = call.args.service_name
                /\ lastCall.ops \cap SchedulingOps = {}

MatchesActiveProvider(scheduleId, name) ==
    \E i \in DOMAIN providerRows :
        /\ providerRows[i].schedule_id = scheduleId /\ providerRows[i].status = "active"
        /\ \E r \in profileRows :
              /\ r.id = providerRows[i].profile_id
              /\ toLowerCase(r.full_name) = toLowerCase(name)

\* A tool call with the same arguments except one.
Without(call, field, value) == [call EXCEPT !.args = [call.args EXCEPT ![field] = value]]

\* What handleSystemToolCall does with a call in the current state.
Handled(call) ==
    handleSystemToolCall(nameToIdCache, now, sourceStatus, appointments, call.tool,
                         call.args, call.session, call.behaviour, call.fail)

\* The step is a tool call for a schedule that is configured and active, with the
\* storage answering and an argument object.
ScheduleStep(call) ==
    /\ call.fail = NoFail
    /\ call.args # NoArgs
    /\ ScheduleOf(call) # {}

\* The claim of C11 for provider names out of a set.
ProviderNameIsOptional(names) ==
    lastCall'.op = "handleSystemToolCall" =>
        LET call == lastCall'.call IN
        ( /\ ScheduleStep(call)
          /\ call.args.provider_name \in names
          /\ \A s \in ScheduleOf(call) :
                ~MatchesActiveProvider(s, call.args.provider_name) )
        => /\ lastCall'.result = Handled(Without(call, "provider_name", NoName)).result
           /\ ( /\ call.args.operation = "createAppointment"
                /\ lastCall'.result.status = "success" )
              => /\ Len(appointments') = Len(appointments) + 1
                 /\ \A s \in ScheduleOf(call) :
                       appointments'[Len(appointments')].provider_id
                           = FirstActiveProvider(s)

ProviderNames == {<<"B", "O">>, <<"z">>, Constructor}

\* C11: a provider_name that matches no active provider of the schedule changes
\* nothing in the result of the call, and a booking that succeeds is given the
\* first active provider of the schedule.
C11_ProviderNameIsOptional == [][ProviderNameIsOptional(ProviderNames)]_vars

SameUpToCase(a, b) ==
    /\ Len(a) = Len(b)
    /\ \A i \in DOMAIN a : Lower(a[i]) = Lower(b[i])

\* Names of the stored resources, typed in another letter case.
CaseNames ==
    {<<"C", "O">>, <<"c", "o">>, <<"b", "A">>, <<"a", "N">>, <<"B", "O">>, <<"c", "Y">>,
     <<"s", "U">>, <<"S", "u">>, <<"o", "N">>}

\* The partition is absent, expired, or holds the map built from the source as it is.
PartitionCoherent(organizationId, type, subKey) ==
    LET cached == getCachedMap(nameToIdCache, now, organizationId, type, subKey)
    IN cached.found => cached.data = SourceMap(sourceStatus, organizationId, type, subKey)

ServiceResolves(organizationId, scheduleId, name, id) ==
    \E r \in {ServiceResolution(nameToIdCache, now, sourceStatus, appointments,
                                [BaseArgs EXCEPT !.service_name = name],
                                Session(organizationId), scheduleId, NoFail)} :
        ~r.stop /\ r.args.service_id = id

ProviderResolves(organizationId, scheduleId, name, id) ==
    \E r \in {ProviderResolution(nameToIdCache, now, appointments,
                                 [BaseArgs EXCEPT !.provider_name = name], <<>>, {},
                                 Session(organizationId), scheduleId, NoFail)} :
        ~r.stop /\ r.args.provider_id = id

TeamResolves(organizationId, name, id) ==
    \E out \in {UpdateChatCase(nameToIdCache, now, appointments,
                               [BaseArgs EXCEPT !.team_name = name],
                               Session(organizationId), "success", NoFail)} :
        /\ ~out.thrown
        /\ out.result.status = "success"
        /\ out.result.action.config.teamId = id

FlowResolves(organizationId, name, id) ==
    \E out \in {StartFlowCase(nameToIdCache, now, appointments,
                              [BaseArgs EXCEPT !.flow_name = name],
                              Session(organizationId), "success", NoFail)} :
        /\ ~out.thrown
        /\ out.result.status = "success"
        /\ out.result.action.config.flowId = id

\* Every name that equals the name of a stored active resource up to letter case
\* resolves to that resource; with onlyCoherent, only where the cache partition
\* consulted is absent, expired or built from the source as it is.
ResolvesUpToCase(onlyCoherent) ==
    \A o \in Orgs, n \in CaseNames :
        /\ \A s \in {x \in scheduleRows : x.organization_id = o} :
              /\ (onlyCoherent => PartitionCoherent(o, "services", s.id))
                 => \A i \in DOMAIN serviceTable :
                       ( /\ serviceTable[i].schedule_id = s.id
                         /\ serviceStatus[serviceTable[i].id] = "active"
                         /\ SameUpToCase(serviceTable[i].title, n) )
                       => ServiceResolves(o, s.id, n, serviceTable[i].id)
              /\ (onlyCoherent => PartitionCoherent(o, "providers", s.id))
                 => \A i \in DOMAIN providerRows, r \in profileRows :
                       ( /\ providerRows[i].schedule_id = s.id
                         /\ providerRows[i].status = "active"
                         /\ r.id = providerRows[i].profile_id
                         /\ SameUpToCase(r.full_name, n) )
                       => ProviderResolves(o, s.id, n, r.id)
        /\ (onlyCoherent => PartitionCoherent(o, "teams", NoKey))
           => \A i \in DOMAIN teamRows :
                 (teamRows[i].organization_id = o /\ SameUpToCase(teamRows[i].name, n))
                 => TeamResolves(o, n, teamRows[i].id)
        /\ (onlyCoherent => PartitionCoherent(o, "flows", NoKey))
           => \A i \in DOMAIN flowRows :
                 ( /\ flowRows[i].organization_id = o
                   /\ flowRows[i].is_active
                   /\ SameUpToCase(flowRows[i].name, n) )
                 => FlowResolves(o, n, flowRows[i].id)

IsScheduleTool(call) ==
    \E i \in DOMAIN actionsSystem :
        actionsSystem[i].name = call.tool.name /\ actionsSystem[i].type = "schedule"

\* C13: a call of a schedule-type action that has no configured schedule, or whose
\* configured schedule is not active for the organization of the session, returns
\* status "error", runs no scheduling operation and changes no appointment,
\* whatever the cache holds.
C13_InvalidScheduleStops ==
    [][ ( /\ lastCall'.op = "handleSystemToolCall"
          /\ IsScheduleTool(lastCall'.call)
          /\ ScheduleOf(lastCall'.call) = {} )
        => /\ ~lastCall'.thrown
           /\ lastCall'.result.status = "error"
           /\ lastCall'.ops \cap SchedulingOps = {}
           /\ appointments' = appointments
      ]_vars

\* A booking through "agenda" was refused because schedule s1 is no longer active,
\* while valid cached maps for s1 were there to resolve its names.
C13_Witness ==
    /\ lastCall.op = "handleSystemToolCall"
    /\ lastCall.call.tool.name = "agenda"
    /\ lastCall.call.session.organization_id = "o1"
    /\ lastCall.call.args = BookArgs
    /\ scheduleStatus["s1"] = "inactive"
    /\ getCachedMap(nameToIdCache, now, "o1", "services", "s1").found
    /\ getCachedMap(nameToIdCache, now, "o1", "providers", "s1").found
    /\ lastCall.result.status = "error"
    /\ lastCall.result.message.kind = "no_active_schedules"

\* The tool of the call is an action of the given type.
IsToolOfType(call, type) ==
    \E i \in DOMAIN actionsSystem :
        actionsSystem[i].name = call.tool.name /\ actionsSystem[i].type = type

TeamsOf(organizationId) ==
    {teamRows[i] : i \in {j \in DOMAIN teamRows : teamRows[j].organization_id = organizationId}}

\* The claim of C14 for team names out of a set.
TeamNameIsChecked(names) ==
    ( /\ lastCall'.op = "handleSystemToolCall"
      /\ IsToolOfType(lastCall'.call, "update_chat")
      /\ lastCall'.call.fail = NoFail
      /\ lastCall'.call.args # NoArgs
      /\ lastCall'.call.args.team_name \in names )
    => LET call == lastCall'.call
           teams == TeamsOf(call.session.organization_id)
       IN /\ ( /\ teams # {}
               /\ \A t \in teams : ~SameUpToCase(t.name, call.args.team_name) )
             => /\ lastCall'.result.status = "error"
                /\ "processUpdateChatAction" \notin lastCall'.ops
          /\ teams = {}
             => /\ "processUpdateChatAction" \in lastCall'.ops
                /\ call.behaviour = "success"
                   => /\ lastCall'.result.status = "success"
                      /\ lastCall'.result.action.config.teamId = NoValue

TeamNames == {<<"S", "U">>, <<"x">>, NotAString, Constructor}

\* C14: update_chat with a team_name: where the organization has teams and none
\* has that name, the result is an error and the chat-update executor is not
\* called; where the organization has no team, the executor is called without a
\* team identifier and no error is returned.
C14_TeamNameIsChecked == [][TeamNameIsChecked(TeamNames)]_vars

ActiveFlowsOf(organizationId) ==
    {flowRows[i] : i \in {j \in DOMAIN flowRows :
                             /\ flowRows[j].organization_id = organizationId
                             /\ flowRows[j].is_active}}

\* The claim of C15 for flow names out of a set.
FlowNameIsChecked(names) ==
    ( /\ lastCall'.op = "handleSystemToolCall"
      /\ IsToolOfType(lastCall'.call, "start_flow")
      /\ lastCall'.call.fail = NoFail
      /\ lastCall'.call.behaviour # "missing"
      /\ lastCall'.call.args # NoArgs
      /\ lastCall'.call.args.flow_name \in names )
    => LET call == lastCall'.call
           matching == {f \in ActiveFlowsOf(call.session.organization_id) :
                           SameUpToCase(f.name, call.args.flow_name)}
       IN /\ matching = {}
             => /\ lastCall'.result.status = "error"
                /\ "processStartFlowAction" \notin lastCall'.ops
          /\ \A f \in matching :
                /\ "processStartFlowAction" \in lastCall'.ops
                /\ call.behaviour \in {"success", "error"}
                   => lastCall'.result.action.config.flowId = f.id

FlowNames == {NoName, <<"O", "N">>, <<"O", "F">>, NotAString, Constructor}

\* C15: start_flow returns status "error" without calling the flow-start executor
\* when flow_name is missing, when the organization has no active flow, or when
\* no active flow has that name; otherwise the executor, where the caller supplied
\* one, is called with the identifier of the active flow of that name.
C15_FlowNameIsChecked == [][FlowNameIsChecked(FlowNames)]_vars

\* C16: a step of createAppointment, checkAppointment or deleteAppointment keeps
\* every row, leaves a canceled row canceled, changes the status of a row only from
\* scheduled or confirmed to canceled, and adds rows only as scheduled.
C16_CanceledIsFinal ==
    [][ /\ Len(appointments') >= Len(appointments)
        /\ \A i \in DOMAIN appointments :
              /\ appointments[i].status = "canceled"
                 => appointments'[i].status = "canceled"
              /\ \/ appointments'[i].status = appointments[i].status
                 \/ /\ appointments[i].status \in {"scheduled", "confirmed"}
                    /\ appointments'[i].status = "canceled"
        /\ \A i \in DOMAIN appointments' \ DOMAIN appointments :
              appointments'[i].status = "scheduled"
      ]_vars

\* An appointment was canceled by deleteAppointment, and a later createAppointment
\* succeeded while it stayed canceled.
C16_Witness ==
    /\ lastCall.op = "createAppointment"
    /\ lastCall.success
    /\ \E i \in DOMAIN appointments :
          /\ appointments[i].status = "canceled"
          /\ "canceled_via" \in appointments[i].metadata

\* C17: deleteAppointment with an identifier that no row has, that belongs to a row
\* of another customer, or whose row is already canceled returns success = false
\* and leaves every appointment as it was.
C17_DeleteByIdRefuses ==
    [][ ( /\ lastCall'.op = "deleteAppointment"
          /\ lastCall'.args[1] # NoId
          /\ \A i \in DOMAIN appointments :
                appointments[i].id = lastCall'.args[1]
                => \/ appointments[i].customer_id # lastCall'.args[2]
                   \/ appointments[i].status = "canceled" )
        => /\ ~lastCall'.success
           /\ appointments' = appointments
      ]_vars

\* A customer asked to cancel, by identifier, a confirmed appointment of another
\* customer, and was refused while a canceled row of their own was in the table.
C17_Witness ==
    /\ lastCall.op = "deleteAppointment"
    /\ lastCall.args[1] = 1
    /\ ~lastCall.success
    /\ Len(appointments) = 2
    /\ appointments[1].status = "confirmed"
    /\ appointments[1].customer_id # lastCall.args[2]
    /\ appointments[2].status = "canceled"
    /\ appointments[2].customer_id = lastCall.args[2]

\* The rows a cancellation by date is about: of the customer, on the date, scheduled
\* or confirmed, and in the schedule where one is given.
OnDate(appts, customerId, date, scheduleId) ==
    {i \in DOMAIN appts :
        /\ appts[i].customer_id = customerId
        /\ appts[i].date = date
        /\ appts[i].status \in {"scheduled", "confirmed"}
        /\ (scheduleId # NoSchedule => appts[i].schedule_id = scheduleId)}

\* C18: deleteAppointment with a date and no identifier cancels every scheduled or
\* confirmed appointment of the customer on that date in the given schedule (in
\* every schedule where none is given), leaves every other appointment as it was,
\* and returns success = false exactly when no appointment matches.
C18_DeleteByDate ==
    [][ ( /\ lastCall'.op = "deleteAppointment"
          /\ lastCall'.args[1] = NoId
          /\ lastCall'.args[3] # NoDate )
        => LET matching == OnDate(appointments, lastCall'.args[2], lastCall'.args[3],
                                  lastCall'.args[4])
           IN /\ lastCall'.success <=> matching # {}
              /\ DOMAIN appointments' = DOMAIN appointments
              /\ \A i \in DOMAIN appointments :
                    IF i \in matching
                    THEN appointments'[i] =
                             [appointments[i] EXCEPT
                                 !.status = "canceled",
                                 !.metadata = @ \cup {"canceled_at", "canceled_via"}]
                    ELSE appointments'[i] = appointments[i]
      ]_vars

\* A cancellation by date in schedule s1 canceled the customer's appointment there
\* and left their appointment of the same date in schedule s2 scheduled.
C18_Witness ==
    /\ lastCall.op = "deleteAppointment"
    /\ lastCall.args[1] = NoId
    /\ lastCall.args[4] = "s1"
    /\ lastCall.success
    /\ Len(appointments) = 2
    /\ appointments[1].schedule_id = "s1"
    /\ appointments[1].status = "canceled"
    /\ "canceled_via" \in appointments[1].metadata
    /\ appointments[2].schedule_id = "s2"
    /\ appointments[2].customer_id = lastCall.args[2]
    /\ appointments[2].date = lastCall.args[3]
    /\ appointments[2].status = "scheduled"

\* The rows checkAppointment is asked for: of the customer, scheduled or confirmed,
\* in the schedule and with the identifier where these are given.
AskedFor(appts, customerId, appointmentId, scheduleId) ==
    {i \in DOMAIN appts :
        /\ appts[i].customer_id = customerId
        /\ appts[i].status \in {"scheduled", "confirmed"}
        /\ (scheduleId # NoSchedule => appts[i].schedule_id = scheduleId)
        /\ (appointmentId # NoId => appts[i].id = appointmentId)}

\* C19: checkAppointment succeeds, changes no appointment, and returns once each,
\* with its own date, time and status, exactly the customer's scheduled or
\* confirmed appointments that pass the schedule and identifier filters given,
\* ordered by date and then by start time.
C19_CheckAppointmentExact ==
    [][ lastCall'.op = "checkAppointment"
        => LET asked == AskedFor(appointments, lastCall'.args[1], lastCall'.args[2],
                                 lastCall'.args[3])
               got == lastCall'.appointments
           IN /\ appointments' = appointments
              /\ lastCall'.success
              /\ lastCall'.count = Cardinality(asked)
              /\ Len(got) = Cardinality(asked)
              /\ {got[j].id : j \in DOMAIN got} = {appointments[i].id : i \in asked}
              /\ \A j \in DOMAIN got :
                    \E i \in asked :
                        /\ got[j].id = appointments[i].id
                        /\ got[j].date = appointments[i].date
                        /\ got[j].time = appointments[i].start_time
                        /\ got[j].status = appointments[i].status
              /\ \A j, k \in DOMAIN got :
                    j < k => \/ dayOfWeek(got[j].date) < dayOfWeek(got[k].date)
                             \/ /\ got[j].date = got[k].date
                                /\ timeToMinutes(got[j].time) <= timeToMinutes(got[k].time)
      ]_vars

\* Both appointments of a customer were returned, the later row of the table first
\* because its date is earlier.
C19_Witness ==
    /\ lastCall.op = "checkAppointment"
    /\ lastCall.count = 2
    /\ lastCall.appointments[1].id = 2
    /\ lastCall.appointments[2].id = 1
    /\ appointments[1].date = "d2"
    /\ appointments[2].date = "d1"
    /\ appointments[1].status = "confirmed"

\* The parameters createAppointment requires that the arguments lack, in the order
\* the message lists them.
MissingOf(date, serviceId) ==
    (IF date = NoDate THEN <<"date">> ELSE <<>>)
        \o (IF serviceId = NoService THEN <<"service_id">> ELSE <<>>)

\* What the validation of processCheckScheduleAction answers to an operation, a
\* date, a resolved service and an appointment identifier; "none" where it passes.
Invalid(operation, date, serviceId, appointmentId) ==
    CASE operation = NoValue -> [kind |-> "operation_required"]
      [] operation = "createAppointment" /\ MissingOf(date, serviceId) # <<>> ->
            [kind |-> "missing_required_parameters", missing |-> MissingOf(date, serviceId)]
      [] operation = "deleteAppointment" /\ appointmentId = NoId /\ date = NoDate ->
            [kind |-> "id_or_date_required_to_cancel"]
      [] operation \notin SchedulingOps ->
            [kind |-> "unsupported_operation", operation |-> operation]
      [] OTHER -> [kind |-> "none"]

\* C20: a schedule call that gets past name resolution with createAppointment and
\* no date or no resolved service, with deleteAppointment and neither identifier
\* nor date, or with an operation that is missing or not one of the four, returns
\* status "error" with the message of that case (for createAppointment the list of
\* the missing parameters), runs no scheduling operation and leaves every
\* appointment as it was.
C20_ValidationErrors ==
    [][ ( /\ lastCall'.op = "handleSystemToolCall"
          /\ ScheduleStep(lastCall'.call)
          /\ lastCall'.call.args.provider_name # NotAString )
        => \A s \in ScheduleOf(lastCall'.call) :
              \E r \in {ServiceResolution(nameToIdCache, now, sourceStatus, appointments,
                                          lastCall'.call.args, lastCall'.call.session, s,
                                          NoFail)} :
                 ( /\ ~r.stop
                   /\ Invalid(r.args.operation, r.args.date, r.args.service_id,
                              r.args.appointment_id).kind # "none" )
                 => /\ lastCall'.result.status = "error"
                    /\ lastCall'.result.message
                           = Invalid(r.args.operation, r.args.date, r.args.service_id,
                                     r.args.appointment_id)
                    /\ lastCall'.ops \cap SchedulingOps = {}
                    /\ appointments' = appointments
      ]_vars

\* A booking whose service name was resolved but that gave no date was refused
\* with the date listed as missing, while an appointment was in the table.
C20_Witness ==
    /\ lastCall.op = "handleSystemToolCall"
    /\ lastCall.call.args # NoArgs
    /\ lastCall.call.args.operation = "createAppointment"
    /\ lastCall.call.args.service_name = <<"C", "O">>
    /\ lastCall.call.args.date = NoDate
    /\ lastCall.result.status = "error"
    /\ lastCall.result.message = [kind |-> "missing_required_parameters",
                                  missing |-> <<"date">>]
    /\ Len(appointments) = 1

\* The query that fails in the call is one the operation gets to run.
QueryRan(call) ==
    LET a == call.args
        at == call.fail.at
    IN CASE at = "insert" ->
               Includes(SlotsAt(appointments, "s1", a.date, a.service_id), a.time)
         [] at = "update" /\ a.appointment_id # NoId ->
               \E i \in DOMAIN appointments :
                   /\ appointments[i].id = a.appointment_id
                   /\ appointments[i].customer_id = call.session.customer_id
                   /\ appointments[i].status \in {"scheduled", "confirmed"}
         [] at = "update" /\ a.appointment_id = NoId ->
               \E i \in DOMAIN appointments :
                   /\ appointments[i].customer_id = call.session.customer_id
                   /\ appointments[i].date = a.date
                   /\ appointments[i].schedule_id = "s1"
                   /\ appointments[i].status \in {"scheduled", "confirmed"}
         [] OTHER -> TRUE

\* C21: a schedule operation one of whose storage queries fails returns status
\* "error" to the caller.
C21_FailedQueryIsError ==
    [][ ( /\ lastCall'.op = "handleSystemToolCall"
          /\ lastCall'.call \in OperationCalls
          /\ scheduleStatus["s1"] = "active"
          /\ QueryRan(lastCall'.call) )
        => lastCall'.result.status = "error"
      ]_vars

\* C22: the result of a schedule call whose operation was run has status "success"
\* exactly when the operation's success flag is true and "error" otherwise, and
\* carries a message, the name of the operation and a data object that holds every
\* field the operation returned; a booking reports success exactly when it added
\* the appointment.
C22_EnrichedResult ==
    [][ ( /\ lastCall'.op = "handleSystemToolCall"
          /\ lastCall'.ops \cap SchedulingOps # {} )
        => LET result == lastCall'.result
               own == DOMAIN result \ {"status", "operation", "data"}
           IN /\ {"status", "success", "message", "operation", "data"} \subseteq DOMAIN result
              /\ result.status = IF result.success THEN "success" ELSE "error"
              /\ result.operation = lastCall'.call.args.operation
              /\ lastCall'.ops \cap SchedulingOps = {result.operation}
              /\ \A f \in own : f \in DOMAIN result.data /\ result.data[f] = result[f]
              /\ {"service_name", "schedule_name", "appointment_date", "appointment_time",
                  "timezone"} \subseteq DOMAIN result.data
              /\ result.operation = "createAppointment"
                 => (result.success <=> Len(appointments') = Len(appointments) + 1)
      ]_vars

\* A booking was run and refused: the result has status "error" and its data
\* holds the operation's message and the date asked for.
C22_Witness ==
    /\ lastCall.op = "handleSystemToolCall"
    /\ "createAppointment" \in lastCall.ops
    /\ ~lastCall.result.success
    /\ lastCall.result.status = "error"
    /\ lastCall.result.data.message.kind = "slot_not_available"
    /\ lastCall.result.data.appointment_date = "d1"

----------------------------------------------------------------------------
(* Claims about fetches *)

CachedTypes == {"services", "providers", "teams", "flows"}

\* The two calls read the same partition of a type: the same organization and, for
\* the types kept by schedule, the same tool and so the same schedule.
SamePartition(type, a, b) ==
    /\ a.session.organization_id = b.session.organization_id
    /\ type \in BySchedule => a.tool.name = b.tool.name

\* Two of the given tool calls made one after the other at the same instant, with no
\* invalidation between them, do not both fetch the list of a partition.
OneFetch(calls) ==
    (/\ lastCall.op = "handleSystemToolCall"
     /\ lastCall'.op = "handleSystemToolCall"
     /\ lastCall.call \in calls
     /\ lastCall'.call \in calls
     /\ now' = now)
        => \A type \in CachedTypes :
               ~(/\ SamePartition(type, lastCall.call, lastCall'.call)
                 /\ FetchOf(type) \in lastCall.ops
                 /\ FetchOf(type) \in lastCall'.ops)

\* C28: with calls made one at a time and no invalidation, the list of a partition
\* (organization, type, schedule) is fetched at most once within the hour for which
\* a map stays valid, whatever the list holds, an empty list included.  The calls
\* are those whose queries all succeed.
C28_OneFetchPerWindow == [][OneFetch({call \in Calls : call.fail = NoFail})]_vars

----------------------------------------------------------------------------
(* Claims about overlapping calls *)

SameSlot(a, b) ==
    a.scheduleId = b.scheduleId /\ a.date = b.date /\ a.time = b.time

\* Both calls have returned, and each was told the slot is free before the other
\* inserted its row.
CheckedBeforeEitherInsert(i, j) ==
    /\ inFlight[i].at = "returned" /\ inFlight[j].at = "returned"
    /\ inFlight[i].sawRows = inFlight[j].sawRows
    /\ \A k \in {i, j} : /\ "available" \in DOMAIN inFlight[k].availabilityCheck
                         /\ inFlight[k].availabilityCheck.available

RowsOfSlot(a) ==
    {n \in DOMAIN appointments :
        /\ appointments[n].schedule_id = a.scheduleId
        /\ appointments[n].date = a.date
        /\ appointments[n].start_time = a.time
        /\ appointments[n].status # "canceled"}

\* C27: two createAppointment calls for the same schedule, date and time, for
\* services that exist, whose availability checks both answer before either insert,
\* both succeed, and the table then holds two appointments that are not canceled for
\* that slot.
C27_BothInsert ==
    \A i, j \in DOMAIN inFlight :
        (/\ i # j
         /\ SameSlot(inFlight[i].args, inFlight[j].args)
         /\ CheckedBeforeEitherInsert(i, j)
         /\ ServiceRow(inFlight[i].args.serviceId) # {}
         /\ ServiceRow(inFlight[j].args.serviceId) # {})
            => /\ inFlight[i].result.success
               /\ inFlight[j].result.success
               /\ inFlight[i].result.appointment_id # inFlight[j].result.appointment_id
               /\ {inFlight[i].result.appointment_id, inFlight[j].result.appointment_id}
                      \subseteq RowsOfSlot(inFlight[i].args)

\* Two calls for 09:00 on d1 with the same provider have both checked before either
\* inserted and have both returned; the table holds their two rows.
C27_Witness ==
    /\ Len(inFlight) = 2
    /\ SameSlot(inFlight[1].args, inFlight[2].args)
    /\ CheckedBeforeEitherInsert(1, 2)
    /\ inFlight[1].args.time = <<9, 0>>
    /\ inFlight[1].args.serviceId = "sv1" /\ inFlight[2].args.serviceId = "sv1"
    /\ inFlight[1].result.success /\ inFlight[2].result.success
    /\ Len(appointments) = 2
    /\ appointments[1].provider_id = appointments[2].provider_id
    /\ appointments[1].status = "scheduled" /\ appointments[2].status = "scheduled"

----------------------------------------------------------------------------
(* Claims about name maps *)

\* The value an item has under a key: its own property, or the property of the
\* object it holds when the key names one with a dot.
ValueAt(item, key, missing) ==
    IF key \in DOMAIN item /\ item[key] # missing THEN item[key]
    ELSE IF key \notin DOMAIN Split THEN missing
    ELSE LET holder == Split[key][1]
             held == Split[key][2]
         IN IF holder \in DOMAIN item /\ item[holder] # NoItem
                   /\ held \in DOMAIN item[holder]
            THEN item[holder][held]
            ELSE missing

HasBoth(item, nameKey, idKey) ==
    /\ item # NoItem
    /\ ValueAt(item, nameKey, NoName) # NoName
    /\ ValueAt(item, idKey, NoValue) # NoValue

LastOf(S) == CHOOSE i \in S : \A j \in S : j <= i

\* C26: createNameToIdMap returns an empty map for a null, non-array or empty list
\* of items; otherwise it maps the lowercased name of each item that has both a name
\* and an identifier, directly or under a dotted path, to the identifier of the last
\* such item with that name up to case, skipping every other item; the cache is left
\* as it was.
C26_NameToIdMap ==
    [][lastCall'.op = "createNameToIdMap" =>
         LET items == lastCall'.items
             nameKey == lastCall'.nameKey
             idKey == lastCall'.idKey
             map == lastCall'.map
             having == IF items \in {NoItems, NotAnArray} THEN {}
                       ELSE {i \in DOMAIN items : HasBoth(items[i], nameKey, idKey)}
             KeyAt(i) == toLowerCase(ValueAt(items[i], nameKey, NoName))
         IN /\ DOMAIN map = {KeyAt(i) : i \in having}
            /\ \A k \in DOMAIN map :
                  map[k] = ValueAt(items[LastOf({i \in having : KeyAt(i) = k})],
                                   idKey, NoValue)
            /\ nameToIdCache' = nameToIdCache
            /\ lastSet' = lastSet]_vars

\* The cache holds a map, and the list has two items with both properties whose
\* names are equal up to case and whose identifiers differ.
C26_Witness ==
     (/\ lastCall.op = "createNameToIdMap"
      /\ nameToIdCache # EmptyCache
      /\ lastCall.items \notin {NoItems, NotAnArray}
      /\ Len(lastCall.items) = 2
      /\ \A i \in 1 .. 2 : HasBoth(lastCall.items[i], lastCall.nameKey, lastCall.idKey)
      /\ ValueAt(lastCall.items[1], lastCall.nameKey, NoName)
             # ValueAt(lastCall.items[2], lastCall.nameKey, NoName)
      /\ DOMAIN lastCall.map = {<<"a", "n">>}
      /\ lastCall.nameKey = "profiles.full_name")

----------------------------------------------------------------------------
(* Claims about tool generation *)

RECURSIVE EachAlone(_, _, _, _)
EachAlone(organizationId, systemActions, status, fail) ==
    IF systemActions = <<>> THEN <<>>
    ELSE generateSystemTools(organizationId, <<Head(systemActions)>>, status, fail)
             \o EachAlone(organizationId, Tail(systemActions), status, fail)

\* The tools returned for a list whose actions are all among the given ones are, in
\* action order, the tools each action gives when it is the only one.
SkipsWithoutAffecting(actions) ==
    (/\ lastCall'.op = "generateSystemTools"
     /\ \A i \in DOMAIN lastCall'.systemActions : lastCall'.systemActions[i] \in actions)
        => lastCall'.tools = EachAlone(lastCall'.organizationId, lastCall'.systemActions,
                                       sourceStatus, lastCall'.fail)

\* C23: generateSystemTools skips an action whose tool cannot be generated (a failed
\* fetch, a missing or inactive schedule, no active flow, an unknown or missing type,
\* a missing configuration) without affecting the others: the list returned holds, in
\* action order, the tools of all the other actions.
C23_SkipsWithoutAffecting == [][SkipsWithoutAffecting(Actions)]_vars

NamedActions ==
    {a \in Actions \ {NoAction} :
        /\ a.type \in {"schedule", "update_customer", "update_chat", "start_flow"}
        /\ a.name # NoName}

\* Every action of the given ones that is alone in the list and gets a tool gets it
\* under the slug of its name.
NamedBySlug(actions) ==
    (/\ lastCall'.op = "generateSystemTools"
     /\ Len(lastCall'.systemActions) = 1
     /\ lastCall'.systemActions[1] \in actions
     /\ lastCall'.tools # <<>>)
        => lastCall'.tools[1].name = transformToolName(lastCall'.systemActions[1].name)

\* C24: for every configured action of the four types (schedule, update_customer,
\* update_chat, start_flow) for which a tool is generated, the name of the tool is
\* the slug of the name configured for the action.
C24_NamedBySlug == [][NamedBySlug(NamedActions)]_vars

----------------------------------------------------------------------------
(* Claims about tool names *)

\* The string matches the pattern of tool names, [a-zA-Z0-9_-]+.
MatchesPattern(str) ==
    /\ str # <<>>
    /\ \A i \in DOMAIN str :
          str[i] \in AlphaNumeric \cup {UpperCase[j] : j \in DOMAIN UpperCase} \cup {"_", "-"}

\* The string is a slug: lowercase letters and digits, in groups separated by
\* single underscores.
IsSlug(str) ==
    /\ str # <<>>
    /\ \A i \in DOMAIN str : str[i] \in AlphaNumeric \cup {"_"}
    /\ str[1] # "_" /\ str[Len(str)] # "_"
    /\ \A i \in 1 .. Len(str) - 1 : ~(str[i] = "_" /\ str[i + 1] = "_")

\* C25 as stated: transformToolName applied to its own output returns that
\* output, and applied to a string that matches [a-zA-Z0-9_-]+ returns that string.
C25_UnchangedOnPattern ==
    lastCall.op = "transformToolName" =>
        /\ transformToolName(lastCall.result) = lastCall.result
        /\ MatchesPattern(lastCall.name) => lastCall.result = lastCall.name

\* C25, amended: transformToolName applied to its own output returns that output,
\* its output is empty or a slug, and applied to a slug it returns that slug.
C25_Idempotent ==
    lastCall.op = "transformToolName" =>
        /\ transformToolName(lastCall.result) = lastCall.result
        /\ lastCall.result = <<>> \/ IsSlug(lastCall.result)
        /\ IsSlug(lastCall.name) => lastCall.result = lastCall.name

\* A name with an upper-case letter and a hyphen between two characters was
\* transformed into a slug that differs from it.
C25_Witness ==
    /\ lastCall.op = "transformToolName"
    /\ lastCall.name = <<"B", "-", "1">>
    /\ lastCall.result = <<"b", "_", "1">>
    /\ transformToolName(lastCall.result) = lastCall.result

----------------------------------------------------------------------------
(* Claims about the cache *)

Read(organizationId, type, subKey) ==
    getCachedMap(nameToIdCache, now, organizationId, type, subKey)

LastSetOf(organizationId, type, subKey) ==
    lastSet[<<organizationId, type, KeyOf(type, subKey)>>]

\* A key that names a partition: services/providers need a schedule id.
ProperKey(type, subKey) == type \in BySchedule => subKey # NoKey

C6_ExpiredIsAbsent ==
    \A o \in Orgs, t \in Types, k \in SubKeys :
        Read(o, t, k).found =>
            LET h == LastSetOf(o, t, k) IN
            /\ h.present
            /\ now - h.timestamp < CACHE_EXPIRATION
            /\ Read(o, t, k).data = h.data

C6_Witness ==
    /\ lastCall.op = "getCachedMap"
    /\ \E o \in Orgs, t \in Types, k \in SubKeys :
          LET h == LastSetOf(o, t, k) IN
          /\ ProperKey(t, k) /\ h.present /\ ~h.replaced
          /\ now - h.timestamp >= CACHE_EXPIRATION
          /\ ~Read(o, t, k).found

ReadNext(organizationId, type, subKey) ==
    getCachedMap(nameToIdCache', now', organizationId, type, subKey)

\* Every key outside targets reads after the step as before it; every key in
\* targets reads as absent.
RemovesExactly(targets) ==
    \A o \in Orgs, t \in Types, k \in SubKeys :
        IF <<o, t, KeyOf(t, k)>> \in targets
        THEN ReadNext(o, t, k) = NotFound
        ELSE ReadNext(o, t, k) = Read(o, t, k)

\* C7: each invalidation call removes exactly its target (one partition, one
\* services/providers bucket, one organization, everything) and leaves every other
\* read unchanged; a setCachedMap on a key that read as absent reads as the new map.
C7_InvalidationFrame ==
    [][ /\ lastCall'.op = "clearCacheItem" =>
              \A o \in Orgs, t \in Types, k \in SubKeys :
                  ClearCacheItem(o, t, k) => RemovesExactly(ItemTargets(o, t, k))
        /\ lastCall'.op = "clearOrganizationCache" =>
              \A o \in Orgs :
                  ClearOrganizationCache(o) => RemovesExactly(OrgTargets(o))
        /\ lastCall'.op = "clearAllCache" =>
              (ClearAllCache => RemovesExactly(CacheKeys))
        /\ lastCall'.op = "setCachedMap" =>
              \A o \in Orgs, t \in Types, m \in Maps, k \in SubKeys :
                  (SetCachedMap(o, t, m, k) /\ ProperKey(t, k) /\ ~Read(o, t, k).found)
                      => ReadNext(o, t, k) = Found(m)
      ]_vars

\* A partition was removed by clearCacheItem while another schedule's partition of
\* the same type and organization is still readable.
C7_Witness ==
    /\ lastCall.op = "clearCacheItem"
    /\ \E o \in Orgs, t \in BySchedule, k1 \in Schedules, k2 \in Schedules :
          /\ k1 # k2
          /\ lastSet[<<o, t, k1>>].invalidated
          /\ ~Read(o, t, k1).found
          /\ Read(o, t, k2).found

\* C29: under any interleaving of tool calls, a map returned by getCachedMap is one
\* map that was passed whole to one setCachedMap call for that partition (the last
\* one before the read): never part of a build, never a mix of two builds.
C29_WholeMaps ==
    \A i \in DOMAIN inFlight :
        inFlight[i].from = "cache"
            => /\ inFlight[i].sawSet.present
               /\ inFlight[i].serviceMap = inFlight[i].sawSet.data

\* Two calls have stored different maps of one partition, one after the other, and a
\* third call has then read the second map from the cache.
C29_Witness ==
    /\ Len(inFlight) = 3
    /\ \A i \in 1 .. 3 : inFlight[i].organizationId = "o1" /\ inFlight[i].at = "resolved"
    /\ inFlight[1].from = "source" /\ inFlight[2].from = "source"
    /\ inFlight[1].services # <<>> /\ inFlight[2].services # <<>>
    /\ inFlight[1].serviceMap # inFlight[2].serviceMap
    /\ inFlight[3].from = "cache"
    /\ inFlight[3].serviceMap \in {inFlight[1].serviceMap, inFlight[2].serviceMap}
    /\ inFlight[3].sawSet.present

\* the calls i and j found the entry of the same partition cold, each before the
\* other stored its map, and both have fetched
Raced(i, j) ==
    /\ i # j
    /\ inFlight[i].organizationId = inFlight[j].organizationId
    /\ inFlight[i].from = "source" /\ inFlight[j].from = "source"
    /\ inFlight[i].sawSet = inFlight[j].sawSet

\* When the second answer of a race of the given kind arrives, the cache holds the
\* map of the rows that the later of the two queries read: no map if it read none.
Converges(races) ==
    \A i, j \in DOMAIN inFlight :
        (/\ Raced(i, j)
         /\ inFlight[i].at = "answer" /\ inFlight[j].at = "resolved"
         /\ inFlight'[i].at = "resolved"
         /\ <<inFlight[i].services, inFlight[j].services>> \in races)
            => LET later == IF inFlight[i].order > inFlight[j].order
                            THEN inFlight[i].services ELSE inFlight[j].services
                   cached == getCachedMap(nameToIdCache', now', inFlight[i].organizationId,
                                          "services", inFlight[i].scheduleId)
               IN IF later = <<>> THEN ~cached.found
                  ELSE /\ cached.found
                       /\ cached.data = createNameToIdMap(later, "title", "id")

\* the lists of services a query may read
ServiceLists == {SelectSeq(serviceTable, LAMBDA r : r.id \in S) : S \in SUBSET ServiceIds}

\* C30: when two tool calls race on a cold entry of one partition, both may fetch and
\* the later setCachedMap overwrites the earlier; once both have completed, the
\* cached map is the map built from the current source list, whichever build
\* completed last.
C30_RacesConverge == [][Converges(ServiceLists \X ServiceLists)]_vars

\* The reads of every partition other than the given one give what they gave before.
OthersAsBefore(organizationId, type, subKey) ==
    \A o \in Orgs, t \in Types, k \in SubKeys :
        <<o, t, KeyOf(t, k)>> # <<organizationId, type, KeyOf(type, subKey)>>
            => getCachedMap(nameToIdCache', now', o, t, k)
                   = getCachedMap(nameToIdCache, now, o, t, k)

\* A setCachedMap whose subKey is among the given ones leaves the other partitions
\* as they were.
SetFrame(subKeys) ==
    (lastCall'.op = "setCachedMap" /\ lastCall'.subKey \in subKeys)
        => OthersAsBefore(lastCall'.organizationId, lastCall'.type, lastCall'.subKey)

\* C31: setCachedMap for one partition (organization, type, subKey) leaves the result
\* of getCachedMap unchanged for every other partition: another organization, another
\* type of the same organization, another schedule of the same type; for every
\* combination of arguments, an omitted subKey included.
C31_SetFrame == [][SetFrame(SubKeys)]_vars

----------------------------------------------------------------------------
(* Claims about the slot list *)

\* The availability rows of the active providers of the schedule on the weekday of date.
Windows(scheduleId, date) ==
    {i \in DOMAIN availabilityTable :
        /\ availabilityTable[i].day_of_week = dayOfWeek(date)
        /\ \E j \in DOMAIN providerRows :
              /\ providerRows[j].id = availabilityTable[i].provider_id
              /\ providerRows[j].schedule_id = scheduleId
              /\ providerRows[j].status = "active"}

\* s is start + 30 n of a window, for some n >= 0, and at most its end - duration.
InWindow(s, scheduleId, date, duration) ==
    \E i \in Windows(scheduleId, date) :
        /\ timeToMinutes(availabilityTable[i].start_time) <= s
        /\ s <= timeToMinutes(availabilityTable[i].end_time) - duration
        /\ (s - timeToMinutes(availabilityTable[i].start_time)) % 30 = 0

\* The times start + 30 n of the windows, within the day.
StepsOfDay == 0 .. (24 * 2 - 1)
Grid(scheduleId, date) ==
    {timeToMinutes(availabilityTable[i].start_time) + 30 * n :
        i \in Windows(scheduleId, date), n \in StepsOfDay}

\* s is covered by an appointment of the schedule and date that is not canceled.
Covered(s, scheduleId, date) ==
    \E k \in DOMAIN appointments :
        /\ appointments[k].schedule_id = scheduleId /\ appointments[k].date = date
        /\ appointments[k].status # "canceled"
        /\ timeToMinutes(appointments[k].start_time) <= s
        /\ s < timeToMinutes(appointments[k].end_time)

\* C32: getAvailableSlots returns exactly the times s that lie in a window of an
\* active provider of the schedule on that weekday, with start <= s <= end - duration
\* and s - start a multiple of 30 minutes, and that no appointment of the schedule
\* and date that is not canceled covers (start <= s < end, whoever the provider); the
\* list has no duplicates and is in ascending order of time.
C32_ExactSlots ==
    lastCall.op = "getAvailableSlots" =>
        LET slots == lastCall.slots IN
        /\ {timeToMinutes(slots[k]) : k \in DOMAIN slots}
               = {s \in Grid(lastCall.scheduleId, lastCall.date) :
                     /\ InWindow(s, lastCall.scheduleId, lastCall.date, lastCall.duration)
                     /\ ~Covered(s, lastCall.scheduleId, lastCall.date)}
        /\ \A k \in DOMAIN slots : slots[k] = minutesToTime(timeToMinutes(slots[k]))
        /\ \A k, l \in DOMAIN slots :
               k < l => timeToMinutes(slots[k]) < timeToMinutes(slots[l])

\* Friday, 30 minutes: both windows offer 10:00, the later window is listed first, an
\* appointment of the other provider covers 09:30 and a canceled one sits at 10:30.
C32_Witness ==
    /\ lastCall.op = "getAvailableSlots"
    /\ lastCall.scheduleId = "s1" /\ lastCall.date = "d3" /\ lastCall.duration = 30
    /\ lastCall.slots = << <<10, 0>>, <<10, 30>> >>
    /\ \E k \in DOMAIN appointments :
          /\ appointments[k].schedule_id = "s1" /\ appointments[k].date = "d3"
          /\ appointments[k].status = "scheduled" /\ appointments[k].provider_id = "pf2"
          /\ appointments[k].start_time = <<9, 30>>
    /\ \E k \in DOMAIN appointments :
          /\ appointments[k].schedule_id = "s1" /\ appointments[k].date = "d3"
          /\ appointments[k].status = "canceled"
          /\ appointments[k].start_time = <<10, 30>>

----------------------------------------------------------------------------
(* Claims about the history of the table *)

Ids(appts) == {appts[i].id : i \in DOMAIN appts}

\* C33: no step of an operation removes an appointment row: the identifiers of the
\* table after the step include those before it; and every row whose status a
\* deleteAppointment step sets to canceled has canceled_at and canceled_via in its
\* metadata afterwards, together with every metadata key it had before.
C33_RowsStay ==
    [][ /\ Ids(appointments) \subseteq Ids(appointments')
        /\ Len(appointments') >= Len(appointments)
        /\ \A i \in DOMAIN appointments :
              /\ appointments'[i].id = appointments[i].id
              /\ ( /\ lastCall'.op = "deleteAppointment"
                    /\ appointments[i].status # "canceled"
                    /\ appointments'[i].status = "canceled" )
                 => /\ {"canceled_at", "canceled_via"} \subseteq appointments'[i].metadata
                    /\ appointments[i].metadata \subseteq appointments'[i].metadata
      ]_vars

\* A cancellation by identifier succeeded, and the canceled row carries the keys it
\* was created with next to the two of the cancellation, beside a row that other
\* writers canceled.
C33_Witness ==
    /\ lastCall.op = "deleteAppointment"
    /\ lastCall.args[1] # NoId
    /\ lastCall.success
    /\ Len(appointments) = 2
    /\ \E i \in DOMAIN appointments :
          /\ appointments[i].id = lastCall.args[1]
          /\ appointments[i].status = "canceled"
          /\ appointments[i].metadata
                 = {"created_via", "creation_date", "canceled_at", "canceled_via"}
    /\ \E i \in DOMAIN appointments :
          /\ appointments[i].status = "canceled"
          /\ "canceled_via" \notin appointments[i].metadata

----------------------------------------------------------------------------
(* Claims about cancellations that fail in part *)

\* A cancellation by date, called while the updates of the rows in lastCall'.failing
\* fail in one of the given ways, cancels each matching row whose update does not
\* fail, leaves every other row as it was, and reports those rows and their number.
CountsSuccesses(modes) ==
    ( /\ lastCall'.op = "deleteAppointment"
      /\ "failing" \in DOMAIN lastCall'
      /\ lastCall'.mode \in modes )
    => LET matching == OnDate(appointments, lastCall'.args[2], lastCall'.args[3],
                              lastCall'.args[4])
           succeeded == {i \in matching : appointments[i].id \notin lastCall'.failing}
       IN matching # {}
          => /\ DOMAIN appointments' = DOMAIN appointments
             /\ \A i \in DOMAIN appointments :
                   appointments'[i] = IF i \in succeeded
                                      THEN [appointments[i] EXCEPT
                                               !.status = "canceled",
                                               !.metadata = @ \cup {"canceled_at",
                                                                    "canceled_via"}]
                                      ELSE appointments[i]
             /\ lastCall'.success
             /\ lastCall'.canceled_count = Cardinality(succeeded)
             /\ lastCall'.canceled_appointments = {appointments[i].id : i \in succeeded}

----------------------------------------------------------------------------
(* Claims about the rows a booking inserts *)

\* A createAppointment step whose time is one of times adds at most one row; the
\* row is scheduled, starts at a time of the slot list of the call's availability
\* check and ends at that time plus the duration of the service; with no time the
\* table stays as it was.
InsertsOpenSlot(times) ==
    ( /\ lastCall'.op = "createAppointment"
      /\ lastCall'.args[3] \in times )
    => /\ \A i \in DOMAIN appointments' \ DOMAIN appointments :
             LET row == appointments'[i] IN
             /\ row.status = "scheduled"
             /\ row.start_time # NoTime
             /\ Includes(SlotsAt(appointments, lastCall'.args[1], lastCall'.args[2],
                                  lastCall'.args[4]), row.start_time)
             /\ row.end_time = minutesToTime(timeToMinutes(row.start_time)
                                                + ServiceDuration(lastCall'.args[4]))
       /\ lastCall'.args[3] = NoTime => appointments' = appointments

\* C35: every row createAppointment inserts has status scheduled, a start_time that
\* is not empty and was in the slot list computed by the availability check of that
\* call, and an end_time equal to start_time plus the duration of the service; a
\* createAppointment call with no time inserts nothing.
C35_InsertsOpenSlot == [][InsertsOpenSlot(Times \cup {NoTime})]_vars

----------------------------------------------------------------------------
(* Claims about the way back from a tool to its action *)

\* The call of a tool emitted for one of the given actions selects that action.
RoundTrip(actions) ==
    ( /\ lastCall'.op = "selectAction"
      /\ lastCall'.systemActions[lastCall'.source] \in actions )
    => /\ ~lastCall'.raised
       /\ lastCall'.selected = lastCall'.systemActions[lastCall'.source]

\* C36: for every configured action for which generateSystemTools emits a tool,
\* handleSystemToolCall called with the name of that tool and the same list of
\* actions selects that action, whatever the name of the action, slug or not.
C36_RoundTrip == [][RoundTrip(Actions \cup SlugNamed)]_vars

----------------------------------------------------------------------------
(* Claims about what a resolved name stands for *)

\* The active services of the schedule that carry the name, up to letter case.
ActiveServicesNamed(status, scheduleId, name) ==
    {r.id : r \in {x \in serviceRows :
                     /\ x.schedule_id = scheduleId /\ status[x.id] = "active"
                     /\ toLowerCase(x.title) = toLowerCase(name)}}

\* A schedule call that names a service, other than by one of the excluded names,
\* and goes on to a scheduling operation has resolved the name: the source then
\* holds an active service of the configured schedule under that name, and a row
\* the call inserts carries the identifier of such a service.
ResolvesToActive(excluded) ==
    ( /\ lastCall'.op = "handleSystemToolCall"
      /\ lastCall'.call.fail = NoFail
      /\ lastCall'.call.args # NoArgs
      /\ lastCall'.call.args.service_name \notin {NoName, NotAString} \cup excluded
      /\ lastCall'.ops \cap SchedulingOps # {} )
    => \A scheduleId \in ScheduleOf(lastCall'.call) :
          /\ ActiveServicesNamed(serviceStatus, scheduleId,
                                 lastCall'.call.args.service_name) # {}
          /\ \A i \in DOMAIN appointments' \ DOMAIN appointments :
                appointments'[i].service_id
                    \in ActiveServicesNamed(serviceStatus, scheduleId,
                                            lastCall'.call.args.service_name)

\* C37: whenever handleSystemToolCall resolves args.service_name to a service
\* identifier, the source of truth holds, at the time of the call, an active service
\* of the configured schedule under that name with that identifier, also when the
\* service was deactivated after the cached map was built and nothing invalidated it.
C37_ResolvesToActive == [][ResolvesToActive({})]_vars

----------------------------------------------------------------------------
(* Claims about a slot that a cancellation frees *)

\* Another appointment of the table that is not canceled covers the start of row.
CoveredByAnother(appts, row) ==
    \E k \in DOMAIN appts :
        /\ appts[k].id # row.id
        /\ appts[k].schedule_id = row.schedule_id /\ appts[k].date = row.date
        /\ appts[k].status # "canceled"
        /\ timeToMinutes(appts[k].start_time) <= timeToMinutes(row.start_time)
        /\ timeToMinutes(row.start_time) < timeToMinutes(appts[k].end_time)

\* In the table appts the start of row is offered for its schedule, date and
\* service, and a booking of it succeeds for whichever customer and provider and
\* adds a scheduled row at that time.
FreedSlot(appts, row) ==
    /\ Includes(checkAvailability(NoFail, appts, row.schedule_id, row.date, NoTime,
                                  row.service_id).available_times, row.start_time)
    /\ checkAvailability(NoFail, appts, row.schedule_id, row.date, row.start_time,
                         row.service_id).available
    /\ \A c \in Customers, p \in {NoProvider, "pf2"} :
          LET out == createAppointment(NoFail, appts, row.schedule_id, c, row.date,
                                       row.start_time, row.service_id, p)
          IN /\ out.result.success
             /\ Len(out.appts) = Len(appts) + 1
             /\ out.appts[Len(out.appts)].status = "scheduled"
             /\ out.appts[Len(out.appts)].start_time = row.start_time

\* C38: once deleteAppointment has canceled an appointment that createAppointment
\* booked, checkAvailability offers its start time again for that schedule, date
\* and service unless another appointment that is not canceled covers it, and a
\* createAppointment at that time succeeds.
C38_CancelFreesSlot ==
    [][ lastCall'.op = "deleteAppointment"
        => \A i \in DOMAIN appointments :
              ( /\ appointments[i].status # "canceled"
                /\ appointments'[i].status = "canceled"
                /\ ~CoveredByAnother(appointments', appointments'[i]) )
              => FreedSlot(appointments', appointments'[i])
      ]_vars

\* A cancellation by identifier freed 09:00 on Monday while the customer's other
\* appointment at 09:30 stayed, and 09:00 is offered again.
C38_Witness ==
    /\ lastCall.op = "deleteAppointment" /\ lastCall.success
    /\ lastCall.args[1] # NoId
    /\ Len(appointments) = 2
    /\ \E i, k \in DOMAIN appointments :
          /\ appointments[i].id = lastCall.args[1]
          /\ appointments[i].status = "canceled"
          /\ appointments[i].start_time = <<9, 0>>
          /\ appointments[k].status = "scheduled"
          /\ appointments[k].schedule_id = appointments[i].schedule_id
          /\ appointments[k].date = appointments[i].date
          /\ appointments[k].start_time = <<9, 30>>
          /\ SlotsAt(appointments, appointments[i].schedule_id, appointments[i].date,
                     appointments[i].service_id) = << <<9, 0>> >>

----------------------------------------------------------------------------
(* Claims about overlapping cancellations *)

\* Two calls for the same appointment and customer, each started before the other
\* returned, have both returned, and some call canceled the appointment.
CanceledTogether(i, j) ==
    /\ i # j
    /\ inFlight[i].op = "deleteAppointment" /\ inFlight[j].op = "deleteAppointment"
    /\ inFlight[i].at = "returned" /\ inFlight[j].at = "returned"
    /\ inFlight[i].args = inFlight[j].args
    /\ i \notin inFlight[j].before /\ j \notin inFlight[i].before
    /\ inFlight[i].result.success \/ inFlight[j].result.success

\* C39: of two deleteAppointment calls by identifier for the same scheduled
\* appointment of the same customer that run at the same time, at most one returns
\* success, the other returns the not-found error, and the cancellation is written
\* to the appointment once.
C39_OneCancels ==
    \A i, j \in DOMAIN inFlight :
        CanceledTogether(i, j)
        => /\ ~(inFlight[i].result.success /\ inFlight[j].result.success)
           /\ \A k \in {i, j} :
                 ~inFlight[k].result.success
                 => inFlight[k].result.message.kind = "appointment_not_found"
           /\ ~(inFlight[i].wrote /\ inFlight[j].wrote)

----------------------------------------------------------------------------
(* Claims about the reach of a cancellation *)

ModeOf(args) == IF args.appointment_id # NoId THEN "identifier" ELSE "date"

\* A deleteAppointment call through a schedule tool, in one of the given modes,
\* changes only appointments of the schedule configured for the tool, and with an
\* identifier given none but the appointment of that identifier.
ChangesOwnSchedule(modes) ==
    ( /\ lastCall'.op = "handleSystemToolCall"
      /\ lastCall'.call.args # NoArgs
      /\ lastCall'.call.args.operation = "deleteAppointment"
      /\ ModeOf(lastCall'.call.args) \in modes )
    => /\ DOMAIN appointments' = DOMAIN appointments
       /\ \A i \in DOMAIN appointments :
             appointments'[i] # appointments[i]
             => /\ appointments[i].schedule_id \in ScheduleOf(lastCall'.call)
                /\ lastCall'.call.args.appointment_id # NoId
                   => appointments[i].id = lastCall'.call.args.appointment_id

\* C40: a deleteAppointment asked through a schedule tool changes only appointments
\* whose schedule_id is the schedule configured for the tool, by identifier as well
\* as by date; with both an identifier and a date, only the identified appointment
\* is canceled.
C40_ChangesOwnSchedule == [][ChangesOwnSchedule({"identifier", "date"})]_vars

============================================================================
